---- MODULE Spec2Model ----
(***************************************************************************)
(* The feature graph of guppy: FeatureGraphBuildState (feature/build.rs)   *)
(* builds, from a package graph, the graph of (package, feature) nodes in  *)
(* three phases; FeatureGraph (feature/graph_impl.rs) answers queries on   *)
(* the built graph.  ResolveCore (resolve_core.rs) and PackageSet          *)
(* (resolve.rs) compute and iterate sets of resolved nodes.                *)
(*                                                                         *)
(* Spec is the construction of the feature graph: the package graph is     *)
(* drawn in Init and never changes, and one action models one call of a    *)
(* builder method.  SplitSpec applies split_feature_dep to a token.        *)
(* ResolveSpec resolves sets over a dependency graph and iterates them.    *)
(***************************************************************************)
EXTENDS Integers, Sequences, FiniteSets, TLC

VARIABLES
    pg,           \* the package graph the feature graph is built from
    pc,           \* position of FeatureGraphImpl::new: "nodes", "named", "deps", "done", "panicked"
    next_ix,      \* package index the node loop of FeatureGraphImpl::new is at
    named_done,   \* packages add_named_feature_edges has been called for
    links_done,   \* links (positions in pg.links) add_dependency_edges has been called for
    graph,        \* FeatureGraphBuildState.graph: [nodes, edges]
    base_ixs,     \* FeatureGraphBuildState.base_ixs
    map,          \* FeatureGraphBuildState.map: FeatureNode -> FeatureMetadataImpl
    warnings,     \* FeatureGraphBuildState.warnings
    clean,        \* the same builder, same steps, run on CleanGraph(pg)
    split_token,  \* SplitSpec: the feature-dep token
    split_result, \* SplitSpec: what split_feature_dep returned for it, or None
    dep_graph,    \* ResolveSpec: the dependency graph, [nodes, edges]
    sccs,         \* ResolveSpec: the graph's Sccs once computed, or None
    kpc,          \* ResolveSpec: "idle", "set", "topo", "links", "roots"
    core,         \* ResolveSpec: the ResolveCore of the current set, [included, len]
    last,         \* ResolveSpec: the last operation, its arguments and its result
    iter,         \* ResolveSpec: the state of the iterator in use
    once          \* OnceSpec: the two OnceCells and the callers of get_or_init

bvars == <<pg, pc, next_ix, named_done, links_done, graph, base_ixs, map, warnings, clean>>
svars == <<split_token, split_result>>
kvars == <<dep_graph, sccs, kpc, core, last, iter>>
ovars == <<once>>
vars == <<bvars, svars, kvars, ovars>>

----------------------------------------------------------------------------
(* Option<T>: None is the empty tuple, Some(x) the one-element tuple.      *)

None == <<>>
Some(x) == <<x>>
IsSome(o) == Len(o) = 1
Unwrap(o) == o[1]

Range(s) == { s[i] : i \in DOMAIN s }

(* Position (0-based) of the first element of s equal to x, or None.        *)
IndexOf(s, x) ==
    IF \E i \in DOMAIN s : s[i] = x
    THEN Some((CHOOSE i \in DOMAIN s : s[i] = x /\ \A j \in 1 .. (i - 1) : s[j] # x) - 1)
    ELSE None

----------------------------------------------------------------------------
(* Names are strings, modelled as tuples of characters.                     *)

DefaultName == <<"d", "e", "f", "a", "u", "l", "t">>
XName == <<"x">>
YName == <<"y">>     \* a feature no package declares
BName == <<"b">>     \* the dependency name of every link
NName == <<"n">>     \* a dependency name no link carries
Slash == "/"
DepFeature(dep, feat) == dep \o <<Slash>> \o feat

----------------------------------------------------------------------------
(* PlatformStatusImpl: never, always, or a non-empty set of target specs.   *)

TargetSpecs == {"unix"}
Never == [always |-> FALSE, specs |-> {}]
Always == [always |-> TRUE, specs |-> {}]
OnSpecs(s) == [always |-> FALSE, specs |-> s]
is_never(status) == ~status.always /\ status.specs = {}
StatusExtend(self, other) ==
    IF self.always \/ other.always THEN Always
    ELSE OnSpecs(self.specs \cup other.specs)
(* other allows no platform that self does not allow                        *)
StatusLeq(other, self) ==
    self.always \/ (~other.always /\ other.specs \subseteq self.specs)

----------------------------------------------------------------------------
(* The package graph, as the builder reads it.  A package has an id, its    *)
(* named features in declaration order, each with its raw feature-dep       *)
(* tokens, and its optional dependencies; named features take the feature   *)
(* indexes 0 .. F-1 and optional dependencies the indexes after them.       *)

PackageIxs == 0 .. 1
PackageIdOf == <<"A", "B">>          \* package ix i has id PackageIdOf[i + 1]
UnknownPackageId == "Z"
PackageIds == Range(PackageIdOf) \cup {UnknownPackageId}

package_ix(package_id) ==
    IndexOf(PackageIdOf, package_id)

(* PackageGraph::metadata: the package with this id, if the graph has it    *)
metadata(g, package_id) ==
    IF IsSome(package_ix(package_id))
    THEN Some(g.packages[Unwrap(package_ix(package_id))])
    ELSE None

FeatureNames(package) == [i \in DOMAIN package.features |-> package.features[i].name]

get_feature_idx(package, name) ==
    IF IsSome(IndexOf(FeatureNames(package), name))
    THEN IndexOf(FeatureNames(package), name)
    ELSE IF IsSome(IndexOf(package.optional_deps, name))
         THEN Some(Len(package.features) + Unwrap(IndexOf(package.optional_deps, name)))
         ELSE None

feature_idx_to_name(package, idx) ==
    IF idx < Len(package.features) THEN Some(package.features[idx + 1].name)
    ELSE IF idx < Len(package.features) + Len(package.optional_deps)
         THEN Some(package.optional_deps[idx - Len(package.features) + 1])
         ELSE None

named_features_full(package) ==
    [i \in DOMAIN package.features |->
        [n |-> i - 1, name |-> package.features[i].name, deps |-> package.features[i].deps]]

optional_deps_full(package) ==
    [j \in DOMAIN package.optional_deps |->
        [n |-> Len(package.features) + j - 1, name |-> package.optional_deps[j]]]

(* the links out of a package, in the graph's edge order                    *)
direct_links(g, ix) ==
    SelectSeq(g.links, LAMBDA l : l.from = ix)

(* FeatureId: (package id, Option<feature name>); None is the base feature  *)
FeatureId(package_id, feature) == [package_id |-> package_id, feature |-> feature]

default_feature_id(package) ==
    IF \E i \in DOMAIN package.features : package.features[i].name = DefaultName
    THEN FeatureId(package.id, Some(DefaultName))
    ELSE FeatureId(package.id, None)

----------------------------------------------------------------------------
(* The package graphs the builder is run on.                                *)

MaxTokens == 1     \* tokens in a named feature's list
MaxLinks == 2      \* links of a package graph
MaxSlots == 2      \* (kind, required/optional) sub-requests a link fills

SeqsUpTo(S, n) == UNION { [1 .. k -> S] : k \in 0 .. n }

NamedChoices == { <<>>, <<XName>>, <<XName, DefaultName>> }
OptionalChoices == { <<>>, <<BName>> }
TokenPool ==
    { XName, YName, DepFeature(BName, XName), DepFeature(BName, YName),
      DepFeature(NName, XName) }
TokenLists == SeqsUpTo(TokenPool, MaxTokens) \ {<<>>}

(* place = None, or <<package ix, position, tokens>>: the one named         *)
(* feature of the graph whose list has tokens                               *)
TokenPlaces ==
    {None} \cup { <<p, i, tl>> : p \in PackageIxs, i \in 1 .. 2, tl \in TokenLists }

Package(ix, named, optional, place) ==
    [ id |-> PackageIdOf[ix + 1],
      package_ix |-> ix,
      features |-> [i \in DOMAIN named |->
          [ name |-> named[i],
            deps |-> IF place # None /\ place[1] = ix /\ place[2] = i
                     THEN place[3] ELSE <<>> ]],
      optional_deps |-> optional ]

EmptyReq == [build_if |-> Never, default_features_if |-> Never, feature_targets |-> <<>>]

(* DepRequiredOrOptional values a sub-request is drawn from; feature_targets *)
(* is the sequence of its (feature name, status) entries in iteration order *)
ReqPool ==
    { [build_if |-> Always, default_features_if |-> Never, feature_targets |-> <<>>],
      [build_if |-> OnSpecs({"unix"}), default_features_if |-> OnSpecs({"unix"}),
       feature_targets |-> <<>>],
      [build_if |-> Always, default_features_if |-> Never,
       feature_targets |-> << <<XName, Always>> >>],
      [build_if |-> OnSpecs({"unix"}), default_features_if |-> Never,
       feature_targets |-> << <<XName, OnSpecs({"unix"})>>, <<YName, OnSpecs({"unix"})>> >>],
      [build_if |-> Never, default_features_if |-> Never,
       feature_targets |-> << <<XName, Never>> >>] }

(* the sub-requests of parallel links                                       *)
ParallelPool ==
    { r \in ReqPool : r.build_if # Never /\ r.default_features_if = Never
                      /\ Len(r.feature_targets) # 1 }

Kinds == {"normal", "build", "dev"}
Sides == {"required", "optional"}
Slots == Kinds \X Sides

SlotAssignments(n, pool) ==
    UNION { [S -> pool] : S \in { T \in SUBSET Slots : Cardinality(T) <= n } }

KindReq(a, kind) ==
    [ required |-> IF <<kind, "required">> \in DOMAIN a THEN a[<<kind, "required">>] ELSE EmptyReq,
      optional |-> IF <<kind, "optional">> \in DOMAIN a THEN a[<<kind, "optional">>] ELSE EmptyReq ]

Link(from, to, a) ==
    [ from |-> from, to |-> to, dep_name |-> BName,
      normal |-> KindReq(a, "normal"),
      build |-> KindReq(a, "build"),
      dev |-> KindReq(a, "dev") ]

(* graphs with tokens: any two package shapes, at most one link, which      *)
(* fills one normal sub-request and names no feature                        *)
SimpleAssignments ==
    { a \in SlotAssignments(1, ReqPool) :
        DOMAIN a # {} /\ \A s \in DOMAIN a : s[1] = "normal" /\ a[s].feature_targets = <<>> }

TokLinkSeqs ==
    {<<>>} \cup
    { <<Link(f, t, a)>> : f \in PackageIxs, t \in PackageIxs, a \in SimpleAssignments }

TokGraphs ==
    { [ packages |-> [ix \in PackageIxs |->
            Package(ix, sh[ix + 1][1], sh[ix + 1][2], place)],
        links |-> ls ] :
      sh \in [1 .. 2 -> NamedChoices \X OptionalChoices],
      place \in TokenPlaces, ls \in TokLinkSeqs }

(* graphs with rich links: package 0 depends on package 1 through one link  *)
(* filling up to MaxSlots sub-requests, or through several parallel links   *)
(* filling one sub-request each                                             *)
ReqLinkSeqs ==
    { <<Link(0, 1, a)>> : a \in SlotAssignments(MaxSlots, ReqPool) }
    \cup
    { [i \in 1 .. k |-> Link(0, 1, as[i])] :
        k \in 2 .. MaxLinks,
        as \in [1 .. MaxLinks -> { a \in SlotAssignments(1, ParallelPool) : DOMAIN a # {} }] }

ReqGraphs ==
    { [ packages |-> [ix \in PackageIxs |->
            IF ix = 0 THEN Package(0, <<>>, opt, None) ELSE Package(1, named, <<>>, None)],
        links |-> ls ] :
      opt \in OptionalChoices, named \in NamedChoices, ls \in ReqLinkSeqs }

(* a link joins two different packages                                      *)
PackageGraphs ==
    { g \in TokGraphs \cup ReqGraphs : \A l \in Range(g.links) : l.from # l.to }

----------------------------------------------------------------------------
(* The feature graph: petgraph's Graph<FeatureNode, FeatureEdge>.  Node and *)
(* edge indexes are 0-based positions in the order of insertion.            *)

FeatureNode_new(ix, feature_idx) == [package_ix |-> ix, feature_idx |-> Some(feature_idx)]
FeatureNode_base(ix) == [package_ix |-> ix, feature_idx |-> None]
FeatureNode_new_opt(ix, feature_idx) == [package_ix |-> ix, feature_idx |-> feature_idx]

FeatureToBase == [kind |-> "FeatureToBase", normal |-> Never, build |-> Never, dev |-> Never]
FeatureDependency ==
    [kind |-> "FeatureDependency", normal |-> Never, build |-> Never, dev |-> Never]
Dependency(normal, build, dev) ==
    [kind |-> "Dependency", normal |-> normal, build |-> build, dev |-> dev]

EmptyGraph == [nodes |-> <<>>, edges |-> <<>>]
node_count(g) == Len(g.nodes)
NodeIxs(g) == 0 .. (Len(g.nodes) - 1)

graph_add_node(g, weight) == [g EXCEPT !.nodes = Append(@, weight)]

find_edge(g, a, b) ==
    IF \E i \in DOMAIN g.edges : g.edges[i].source = a /\ g.edges[i].target = b
    THEN Some(CHOOSE i \in DOMAIN g.edges :
                /\ g.edges[i].source = a /\ g.edges[i].target = b
                /\ \A j \in 1 .. (i - 1) : ~(g.edges[j].source = a /\ g.edges[j].target = b))
    ELSE None

(* Graph::update_edge: replace the weight of the edge a -> b, or add it     *)
update_edge(g, a, b, weight) ==
    IF IsSome(find_edge(g, a, b))
    THEN [g EXCEPT !.edges[Unwrap(find_edge(g, a, b))].weight = weight]
    ELSE [g EXCEPT !.edges = Append(@, [source |-> a, target |-> b, weight |-> weight])]

contains_edge(g, a, b) == IsSome(find_edge(g, a, b))

Successors(g, S) ==
    { g.edges[i].target : i \in { j \in DOMAIN g.edges : g.edges[j].source \in S } }

RECURSIVE Discovered(_, _)
Discovered(g, seen) ==
    IF Successors(g, seen) \subseteq seen THEN seen
    ELSE Discovered(g, seen \cup Successors(g, seen))

(* petgraph::algo::has_path_connecting: a depth-first search from a_ix      *)
has_path_connecting(g, a_ix, b_ix) == b_ix \in Discovered(g, {a_ix})

----------------------------------------------------------------------------
(* FeatureGraphBuildState.  A build state is the record of its fields; the  *)
(* field panicked is set when a method panics.                              *)

FeatureGraphBuildState_new ==
    [graph |-> EmptyGraph, base_ixs |-> <<>>, map |-> <<>>, warnings |-> <<>>,
     panicked |-> FALSE]

MissingFeature(stage, stage_package_id, stage_name, package_id, feature_name) ==
    [ stage |-> stage,                       \* AddNamedFeatureEdges or AddDependencyEdges
      stage_package_id |-> stage_package_id,
      stage_name |-> stage_name,             \* from_feature, or dep_name
      package_id |-> package_id,
      feature_name |-> feature_name ]

lookup_node(st, node) ==
    IF node \in DOMAIN st.map THEN Some(st.map[node].feature_ix) ELSE None

(* add_node with the node count after the insertion as the node's index     *)
add_node_count_as_index(st, feature_id, feature_type) ==
    [st EXCEPT
        !.graph = graph_add_node(@, feature_id),
        !.map = (feature_id :> [feature_ix |-> node_count(st.graph) + 1,
                                feature_type |-> feature_type]) @@ @]

add_node(st, feature_id, feature_type) ==
    [st EXCEPT
        !.graph = graph_add_node(@, feature_id),
        !.map = (feature_id :> [feature_ix |-> node_count(st.graph),
                                feature_type |-> feature_type]) @@ @]

(* add a node for each entry of features and an edge from it to the base    *)
RECURSIVE add_feature_nodes(_, _, _, _, _)
add_feature_nodes(st, ix, base_ix, features, feature_type) ==
    IF features = <<>> THEN st
    ELSE LET added == add_node(st, FeatureNode_new(ix, Head(features).n), feature_type)
             feature_ix == node_count(st.graph)
         IN add_feature_nodes(
                [added EXCEPT !.graph = update_edge(@, feature_ix, base_ix, FeatureToBase)],
                ix, base_ix, Tail(features), feature_type)

(* add_nodes that gives the optional dependencies nodes but no edge to the  *)
(* base                                                                     *)
RECURSIVE add_feature_nodes_only(_, _, _, _)
add_feature_nodes_only(st, ix, features, feature_type) ==
    IF features = <<>> THEN st
    ELSE add_feature_nodes_only(
            add_node(st, FeatureNode_new(ix, Head(features).n), feature_type),
            ix, Tail(features), feature_type)

add_nodes_without_optional_edges(st, package) ==
    LET base_ix == node_count(st.graph)
        with_base == add_node(st, FeatureNode_base(package.package_ix), "BasePackage")
        pushed == [with_base EXCEPT !.base_ixs = Append(@, base_ix)]
        named == add_feature_nodes(pushed, package.package_ix, base_ix,
                                   named_features_full(package), "NamedFeature")
    IN add_feature_nodes_only(named, package.package_ix,
                              optional_deps_full(package), "OptionalDep")

add_nodes(st, package) ==
    LET base_ix == node_count(st.graph)
        with_base == add_node(st, FeatureNode_base(package.package_ix), "BasePackage")
        pushed == [with_base EXCEPT !.base_ixs = Append(@, base_ix)]
        named == add_feature_nodes(pushed, package.package_ix, base_ix,
                                   named_features_full(package), "NamedFeature")
    IN add_feature_nodes(named, package.package_ix, base_ix,
                         optional_deps_full(package), "OptionalDep")

(* end_nodes that records the index of the last node                       *)
end_nodes_last_index(st) == [st EXCEPT !.base_ixs = Append(@, node_count(st.graph) - 1)]

end_nodes(st) == [st EXCEPT !.base_ixs = Append(@, node_count(st.graph))]

(* add_edges: panics when from_node or a target node is not in the map      *)
RECURSIVE add_edges_from(_, _, _)
add_edges_from(st, from_ix, to_nodes_edges) ==
    IF to_nodes_edges = <<>> \/ st.panicked THEN st
    ELSE LET to_ix == lookup_node(st, Head(to_nodes_edges)[1])
         IN IF ~IsSome(to_ix) THEN [st EXCEPT !.panicked = TRUE]
            ELSE add_edges_from(
                    [st EXCEPT !.graph =
                        update_edge(@, from_ix, Unwrap(to_ix), Head(to_nodes_edges)[2])],
                    from_ix, Tail(to_nodes_edges))

add_edges(st, from_node, to_nodes_edges) ==
    IF ~IsSome(lookup_node(st, from_node)) THEN [st EXCEPT !.panicked = TRUE]
    ELSE add_edges_from(st, Unwrap(lookup_node(st, from_node)), to_nodes_edges)

(* str::rsplitn(2, '/'): split at the last '/'                              *)
LastSlash(feature_dep) ==
    IF \E i \in DOMAIN feature_dep : feature_dep[i] = Slash
    THEN Some(CHOOSE i \in DOMAIN feature_dep :
                /\ feature_dep[i] = Slash
                /\ \A j \in (i + 1) .. Len(feature_dep) : feature_dep[j] # Slash)
    ELSE None

(* split_feature_dep with splitn in the place of rsplitn: split at the      *)
(* first '/'                                                                *)
split_feature_dep_at_first_slash(feature_dep) ==
    IF IsSome(IndexOf(feature_dep, Slash))
    THEN [ dep_name |-> Some(SubSeq(feature_dep, 1, Unwrap(IndexOf(feature_dep, Slash)))),
           to_feature_name |->
               SubSeq(feature_dep, Unwrap(IndexOf(feature_dep, Slash)) + 2, Len(feature_dep)) ]
    ELSE [ dep_name |-> None, to_feature_name |-> feature_dep ]

split_feature_dep(feature_dep) ==
    IF IsSome(LastSlash(feature_dep))
    THEN [ dep_name |-> Some(SubSeq(feature_dep, 1, Unwrap(LastSlash(feature_dep)) - 1)),
           to_feature_name |->
               SubSeq(feature_dep, Unwrap(LastSlash(feature_dep)) + 1, Len(feature_dep)) ]
    ELSE [ dep_name |-> None, to_feature_name |-> feature_dep ]

(* dep_name_to_metadata: collecting into the HashMap keeps, for a dep name, *)
(* the last link that carries it                                            *)
dep_name_to_metadata(g, package, dep_name) ==
    LET links == direct_links(g, package.package_ix)
        hits == { i \in DOMAIN links : links[i].dep_name = dep_name }
    IN IF hits = {} THEN None
       ELSE Some(g.packages[links[CHOOSE i \in hits : \A j \in hits : j <= i].to])

(* resolve_feature_dep with a missing feature of a dependency resolved to   *)
(* the base node of the dependency                                          *)
resolve_feature_dep_missing_to_base(g, package, named_feature, feature_dep) ==
    LET split == split_feature_dep(feature_dep)
        to_feature_name == split.to_feature_name
    IN IF IsSome(split.dep_name)
       THEN LET to_metadata == dep_name_to_metadata(g, package, Unwrap(split.dep_name))
            IN IF IsSome(to_metadata)
               THEN IF IsSome(get_feature_idx(Unwrap(to_metadata), to_feature_name))
                    THEN [ node |-> Some(FeatureNode_new(
                               Unwrap(to_metadata).package_ix,
                               Unwrap(get_feature_idx(Unwrap(to_metadata), to_feature_name)))),
                           warning |-> None ]
                    ELSE [ node |-> Some(FeatureNode_base(Unwrap(to_metadata).package_ix)),
                           warning |-> Some(MissingFeature("AddNamedFeatureEdges",
                               package.id, named_feature,
                               Unwrap(to_metadata).id, to_feature_name)) ]
               ELSE [ node |-> None, warning |-> None ]
       ELSE IF IsSome(get_feature_idx(package, to_feature_name))
            THEN [ node |-> Some(FeatureNode_new(
                       package.package_ix,
                       Unwrap(get_feature_idx(package, to_feature_name)))),
                   warning |-> None ]
            ELSE [ node |-> None,
                   warning |-> Some(MissingFeature("AddNamedFeatureEdges",
                       package.id, named_feature, package.id, to_feature_name)) ]

(* resolve_feature_dep with a warning for an unknown dependency name        *)
resolve_feature_dep_warn_unresolved(g, package, named_feature, feature_dep) ==
    LET split == split_feature_dep(feature_dep)
        to_feature_name == split.to_feature_name
    IN IF IsSome(split.dep_name)
       THEN LET to_metadata == dep_name_to_metadata(g, package, Unwrap(split.dep_name))
            IN IF IsSome(to_metadata)
               THEN IF IsSome(get_feature_idx(Unwrap(to_metadata), to_feature_name))
                    THEN [ node |-> Some(FeatureNode_new(
                               Unwrap(to_metadata).package_ix,
                               Unwrap(get_feature_idx(Unwrap(to_metadata), to_feature_name)))),
                           warning |-> None ]
                    ELSE [ node |-> None,
                           warning |-> Some(MissingFeature("AddNamedFeatureEdges",
                               package.id, named_feature,
                               Unwrap(to_metadata).id, to_feature_name)) ]
               ELSE [ node |-> None,
                      warning |-> Some(MissingFeature("AddNamedFeatureEdges",
                          package.id, named_feature, UnknownPackageId, to_feature_name)) ]
       ELSE IF IsSome(get_feature_idx(package, to_feature_name))
            THEN [ node |-> Some(FeatureNode_new(
                       package.package_ix,
                       Unwrap(get_feature_idx(package, to_feature_name)))),
                   warning |-> None ]
            ELSE [ node |-> None,
                   warning |-> Some(MissingFeature("AddNamedFeatureEdges",
                       package.id, named_feature, package.id, to_feature_name)) ]

(* the filter_map closure of add_named_feature_edges on one token:          *)
(* the node the token resolves to, and the warning it pushes                *)
resolve_feature_dep(g, package, named_feature, feature_dep) ==
    LET split == split_feature_dep(feature_dep)
        to_feature_name == split.to_feature_name
    IN IF IsSome(split.dep_name)
       THEN LET to_metadata == dep_name_to_metadata(g, package, Unwrap(split.dep_name))
            IN IF IsSome(to_metadata)
               THEN IF IsSome(get_feature_idx(Unwrap(to_metadata), to_feature_name))
                    THEN [ node |-> Some(FeatureNode_new(
                               Unwrap(to_metadata).package_ix,
                               Unwrap(get_feature_idx(Unwrap(to_metadata), to_feature_name)))),
                           warning |-> None ]
                    ELSE [ node |-> None,
                           warning |-> Some(MissingFeature("AddNamedFeatureEdges",
                               package.id, named_feature,
                               Unwrap(to_metadata).id, to_feature_name)) ]
               ELSE [ node |-> None, warning |-> None ]
       ELSE IF IsSome(get_feature_idx(package, to_feature_name))
            THEN [ node |-> Some(FeatureNode_new(
                       package.package_ix,
                       Unwrap(get_feature_idx(package, to_feature_name)))),
                   warning |-> None ]
            ELSE [ node |-> None,
                   warning |-> Some(MissingFeature("AddNamedFeatureEdges",
                       package.id, named_feature, package.id, to_feature_name)) ]

(* the nodes the tokens of one named feature resolve to, in token order     *)
RECURSIVE to_nodes_of(_, _, _, _)
to_nodes_of(g, package, named_feature, feature_deps) ==
    IF feature_deps = <<>> THEN <<>>
    ELSE LET r == resolve_feature_dep(g, package, named_feature, Head(feature_deps))
         IN (IF IsSome(r.node) THEN <<Unwrap(r.node)>> ELSE <<>>)
            \o to_nodes_of(g, package, named_feature, Tail(feature_deps))

RECURSIVE warnings_of(_, _, _, _)
warnings_of(g, package, named_feature, feature_deps) ==
    IF feature_deps = <<>> THEN <<>>
    ELSE LET r == resolve_feature_dep(g, package, named_feature, Head(feature_deps))
         IN (IF IsSome(r.warning) THEN <<Unwrap(r.warning)>> ELSE <<>>)
            \o warnings_of(g, package, named_feature, Tail(feature_deps))

RECURSIVE add_named_features(_, _, _, _)
add_named_features(st, g, package, features) ==
    IF features = <<>> \/ st.panicked THEN st
    ELSE LET f == Head(features)
             to_nodes == to_nodes_of(g, package, f.name, f.deps)
             warned == [st EXCEPT !.warnings = @ \o warnings_of(g, package, f.name, f.deps)]
         IN add_named_features(
                add_edges(warned, FeatureNode_new(package.package_ix, f.n),
                          [i \in DOMAIN to_nodes |-> <<to_nodes[i], FeatureDependency>>]),
                g, package, Tail(features))

add_named_feature_edges(st, g, package) ==
    add_named_features(st, g, package, named_features_full(package))

----------------------------------------------------------------------------
(* DependencyBuildState and FeatureReq.                                     *)

DependencyBuildState_default == [normal |-> Never, build |-> Never, dev |-> Never]

DependencyBuildState_extend(self, dep_kind, status) ==
    [self EXCEPT ![dep_kind] = StatusExtend(@, status)]

DependencyBuildState_is_empty(self) ==
    is_never(self.normal) /\ is_never(self.build) /\ is_never(self.dev)

(* finish with the wrong edge variant                                       *)
DependencyBuildState_finish_as_feature_dependency(self) ==
    [kind |-> "FeatureDependency", normal |-> self.normal, build |-> self.build,
     dev |-> self.dev]

DependencyBuildState_finish(self) == Dependency(self.normal, self.build, self.dev)

(* features: the HashMap from Option<feature idx> to DependencyBuildState   *)
FeatureReq_new(g, link) ==
    [ link |-> link,
      to |-> g.packages[link.to],
      to_default_idx |-> get_feature_idx(g.packages[link.to], DefaultName),
      features |-> <<>> ]

FeatureReq_is_empty(self) == DOMAIN self.features = {}

(* extend that records a never status as well                               *)
FeatureReq_extend_never_too(self, feature_idx, dep_kind, status) ==
    [self EXCEPT !.features =
        (feature_idx :>
            DependencyBuildState_extend(
                IF feature_idx \in DOMAIN self.features
                THEN self.features[feature_idx] ELSE DependencyBuildState_default,
                dep_kind, status)) @@ @]

FeatureReq_extend(self, feature_idx, dep_kind, status) ==
    IF ~is_never(status)
    THEN [self EXCEPT !.features =
            (feature_idx :>
                DependencyBuildState_extend(
                    IF feature_idx \in DOMAIN self.features
                    THEN self.features[feature_idx] ELSE DependencyBuildState_default,
                    dep_kind, status)) @@ @]
    ELSE self

(* the loop of add_features over feature_targets; rw = [req, warnings]      *)
RECURSIVE add_feature_targets(_, _, _, _)
add_feature_targets(rw, g, dep_kind, feature_targets) ==
    IF feature_targets = <<>> THEN rw
    ELSE LET feature == Head(feature_targets)[1]
             status == Head(feature_targets)[2]
             feature_idx == get_feature_idx(rw.req.to, feature)
         IN add_feature_targets(
                IF IsSome(feature_idx)
                THEN [rw EXCEPT !.req = FeatureReq_extend(@, feature_idx, dep_kind, status)]
                ELSE [rw EXCEPT !.warnings = Append(@,
                        MissingFeature("AddDependencyEdges",
                            g.packages[rw.req.link.from].id, rw.req.link.dep_name,
                            rw.req.to.id, feature))],
                g, dep_kind, Tail(feature_targets))

(* add_features with default_features_if always under the base key          *)
add_features_default_under_base(rw, g, dep_kind, req) ==
    LET base == FeatureReq_extend(rw.req, None, dep_kind, req.build_if)
        default == FeatureReq_extend(base, None, dep_kind, req.default_features_if)
    IN add_feature_targets([rw EXCEPT !.req = default], g, dep_kind, req.feature_targets)

add_features(rw, g, dep_kind, req) ==
    LET base == FeatureReq_extend(rw.req, None, dep_kind, req.build_if)
        default == FeatureReq_extend(base, base.to_default_idx, dep_kind,
                                     req.default_features_if)
    IN add_feature_targets([rw EXCEPT !.req = default], g, dep_kind, req.feature_targets)

(* finish: the (node, edge) pairs in the iteration order of the HashMap     *)
FeatureReq_finish(self, order) ==
    [i \in DOMAIN order |->
        << FeatureNode_new_opt(self.to.package_ix, order[i]),
           DependencyBuildState_finish(self.features[order[i]]) >>]

UnifiedKinds == <<"normal", "build", "dev">>

(* the loop of add_dependency_edges over the three kinds;                   *)
(* acc = [required, optional, warnings]                                     *)
RECURSIVE unify(_, _, _, _)
unify(acc, g, link, kinds) ==
    IF kinds = <<>> THEN acc
    ELSE LET kind == Head(kinds)
             r == add_features([req |-> acc.required, warnings |-> acc.warnings],
                               g, kind, link[kind].required)
             o == add_features([req |-> acc.optional, warnings |-> r.warnings],
                               g, kind, link[kind].optional)
         IN unify([required |-> r.req, optional |-> o.req, warnings |-> o.warnings],
                  g, link, Tail(kinds))

Unified(st, g, link) ==
    unify([required |-> FeatureReq_new(g, link), optional |-> FeatureReq_new(g, link),
           warnings |-> st.warnings], g, link, UnifiedKinds)

(* add_dependency_edges with the optional edges hung from the base node     *)
add_dependency_edges_optional_from_base(st, g, link, required_order, optional_order) ==
    LET from == g.packages[link.from]
        u == Unified(st, g, link)
        required == add_edges([st EXCEPT !.warnings = u.warnings],
                              FeatureNode_base(from.package_ix),
                              FeatureReq_finish(u.required, required_order))
    IN IF FeatureReq_is_empty(u.optional) \/ required.panicked THEN required
       ELSE IF ~IsSome(get_feature_idx(from, link.dep_name))
            THEN [required EXCEPT !.panicked = TRUE]
            ELSE add_edges(required,
                           FeatureNode_base(from.package_ix),
                           FeatureReq_finish(u.optional, optional_order))

(* add_dependency_edges that looks the dependency name up before it tests   *)
(* whether the optional request is empty                                    *)
add_dependency_edges_lookup_first(st, g, link, required_order, optional_order) ==
    LET from == g.packages[link.from]
        u == Unified(st, g, link)
        required == add_edges([st EXCEPT !.warnings = u.warnings],
                              FeatureNode_base(from.package_ix),
                              FeatureReq_finish(u.required, required_order))
    IN IF required.panicked THEN required
       ELSE IF ~IsSome(get_feature_idx(from, link.dep_name))
            THEN [required EXCEPT !.panicked = TRUE]
            ELSE IF FeatureReq_is_empty(u.optional) THEN required
                 ELSE add_edges(required,
                                FeatureNode_new(from.package_ix,
                                                Unwrap(get_feature_idx(from, link.dep_name))),
                                FeatureReq_finish(u.optional, optional_order))

(* required_order and optional_order: the orders in which the two finish()  *)
(* calls iterate their maps                                                 *)
add_dependency_edges(st, g, link, required_order, optional_order) ==
    LET from == g.packages[link.from]
        u == Unified(st, g, link)
        required == add_edges([st EXCEPT !.warnings = u.warnings],
                              FeatureNode_base(from.package_ix),
                              FeatureReq_finish(u.required, required_order))
    IN IF FeatureReq_is_empty(u.optional) \/ required.panicked THEN required
       ELSE IF ~IsSome(get_feature_idx(from, link.dep_name))
            THEN [required EXCEPT !.panicked = TRUE]
            ELSE add_edges(required,
                           FeatureNode_new(from.package_ix,
                                           Unwrap(get_feature_idx(from, link.dep_name))),
                           FeatureReq_finish(u.optional, optional_order))

(* the orders a HashMap with these keys may be iterated in                  *)
Orders(keys) ==
    { order \in [1 .. Cardinality(keys) -> keys] :
        \A i, j \in 1 .. Cardinality(keys) : order[i] = order[j] => i = j }

----------------------------------------------------------------------------
(* The package graph without its references to features that do not exist:  *)
(* the tokens and feature_targets entries the builder warns about.          *)

(* What a feature-dep token refers to, read off the package graph.         *)
HasFeature(package, name) ==
    \/ \E i \in DOMAIN package.features : package.features[i].name = name
    \/ name \in Range(package.optional_deps)

DirectDeps(g, package, dep_name) ==
    { l \in Range(g.links) : l.from = package.package_ix /\ l.dep_name = dep_name }

TokenClass(g, package, token) ==
    LET split == split_feature_dep(token)
    IN IF IsSome(split.dep_name)
       THEN IF DirectDeps(g, package, Unwrap(split.dep_name)) = {} THEN "unresolved_dep"
            ELSE IF \E l \in DirectDeps(g, package, Unwrap(split.dep_name)) :
                        HasFeature(g.packages[l.to], split.to_feature_name)
                 THEN "dep_feature" ELSE "missing_dep_feature"
       ELSE IF HasFeature(package, split.to_feature_name)
            THEN "own_feature" ELSE "missing_own_feature"

MissingToken(g, package, token) ==
    TokenClass(g, package, token) \in {"missing_dep_feature", "missing_own_feature"}

CleanReq(to, req) ==
    [req EXCEPT !.feature_targets = SelectSeq(@, LAMBDA e : HasFeature(to, e[1]))]

CleanLink(g, link) ==
    [link EXCEPT
        !.normal = [required |-> CleanReq(g.packages[link.to], @.required),
                    optional |-> CleanReq(g.packages[link.to], @.optional)],
        !.build = [required |-> CleanReq(g.packages[link.to], @.required),
                   optional |-> CleanReq(g.packages[link.to], @.optional)],
        !.dev = [required |-> CleanReq(g.packages[link.to], @.required),
                 optional |-> CleanReq(g.packages[link.to], @.optional)]]

CleanPackage(g, package) ==
    [package EXCEPT !.features =
        [i \in DOMAIN package.features |->
            [package.features[i] EXCEPT !.deps =
                SelectSeq(@, LAMBDA t : ~MissingToken(g, package, t))]]]

CleanGraph(g) ==
    [ packages |-> [ix \in PackageIxs |-> CleanPackage(g, g.packages[ix])],
      links |-> [i \in DOMAIN g.links |-> CleanLink(g, g.links[i])] ]

----------------------------------------------------------------------------
(* FixedBitSet (fixedbitset 0.2.0): a length in bits and the bits that are  *)
(* set.  Equality is derived: two bitsets of different lengths differ.      *)

FixedBitSet_with_capacity(bits) == [length |-> bits, bits |-> {}]
is_visited(bitset, ix) == ix \in bitset.bits
visit(bitset, ix) == [bitset EXCEPT !.bits = @ \cup {ix}]
insert_range(bitset) == [bitset EXCEPT !.bits = 0 .. (bitset.length - 1)]
count_ones(bitset) == Cardinality(bitset.bits)

Max(a, b) == IF a >= b THEN a ELSE b

(* union_with and symmetric_difference_with grow self to other's length     *)
FixedBitSet_union_with(self, other) ==
    [length |-> Max(self.length, other.length), bits |-> self.bits \cup other.bits]

FixedBitSet_intersect_with(self, other) ==
    [length |-> self.length, bits |-> self.bits \cap other.bits]

FixedBitSet_symmetric_difference_with(self, other) ==
    [length |-> Max(self.length, other.length),
     bits |-> (self.bits \ other.bits) \cup (other.bits \ self.bits)]

(* the Difference iterator collected: FromIterator starts from capacity 0   *)
(* and grows to one past each bit it is given                               *)
FixedBitSet_difference_collect(self, other) ==
    LET ones == self.bits \ other.bits
    IN [length |-> IF ones = {} THEN 0 ELSE (CHOOSE m \in ones : \A x \in ones : x <= m) + 1,
        bits |-> ones]

visit_map(g) == FixedBitSet_with_capacity(node_count(g))

----------------------------------------------------------------------------
(* query_core: the reachability searches ResolveCore is built on.           *)

(* petgraph::visit::Reversed: every edge seen from its target               *)
Reversed(g) ==
    [g EXCEPT !.edges = [i \in DOMAIN g.edges |->
        [g.edges[i] EXCEPT !.source = g.edges[i].target, !.target = g.edges[i].source]]]

(* the edge references of a graph: source, target, and the edge index       *)
edge_references(g) ==
    { [source |-> g.edges[i].source, target |-> g.edges[i].target, id |-> i - 1] :
        i \in DOMAIN g.edges }

(* the targets of the edges of kept that leave ix, in edge order            *)
filtered_neighbors(g, kept, ix) ==
    LET out == SelectSeq([i \in DOMAIN g.edges |->
                             [source |-> g.edges[i].source, target |-> g.edges[i].target,
                              id |-> i - 1]],
                         LAMBDA e : e.source = ix /\ e \in kept)
    IN [i \in DOMAIN out |-> out[i].target]

(* a depth-first search from the stack of roots over the edges of kept      *)
RECURSIVE dfs(_, _, _, _)
dfs(g, kept, stack, discovered) ==
    IF stack = <<>> THEN discovered
    ELSE LET ix == stack[Len(stack)]
             rest == SubSeq(stack, 1, Len(stack) - 1)
         IN IF is_visited(discovered, ix) THEN dfs(g, kept, rest, discovered)
            ELSE dfs(g, kept, rest \o filtered_neighbors(g, kept, ix), visit(discovered, ix))

all_visit_map(g) ==
    [included |-> insert_range(visit_map(g)), len |-> node_count(g)]

reachable_map(g, roots) ==
    LET reachable == dfs(g, edge_references(g), roots, visit_map(g))
    IN [included |-> reachable, len |-> count_ones(reachable)]

(* accepted: the edge references the edge filter returns true for           *)
reachable_map_filtered(g, accepted, roots) ==
    LET reachable == dfs(g, accepted, roots, visit_map(g))
    IN [included |-> reachable, len |-> count_ones(reachable)]

----------------------------------------------------------------------------
(* ResolveCore: [included, len].  params = [direction, initials].           *)

Forward(initials) == [direction |-> "Forward", initials |-> initials]
Reverse(initials) == [direction |-> "Reverse", initials |-> initials]

(* new that includes the initials and nothing they lead to                  *)
ResolveCore_new_initials_only(g, params) ==
    reachable_map_filtered(g, {}, params.initials)

ResolveCore_new_without_direction(g, params) == reachable_map(g, params.initials)

ResolveCore_new(g, params) ==
    IF params.direction = "Forward" THEN reachable_map(g, params.initials)
    ELSE reachable_map(Reversed(g), params.initials)

ResolveCore_all_nodes(g) == all_visit_map(g)

(* edge_filter: the (source, target, edge ix) triples the filter accepts    *)
(* with_edge_filter that hands the filter the source and target of the      *)
(* reversed edge under Reverse                                              *)
ResolveCore_with_edge_filter_reversed_arguments(g, params, edge_filter) ==
    IF params.direction = "Forward"
    THEN reachable_map_filtered(g,
            { e \in edge_references(g) : <<e.source, e.target, e.id>> \in edge_filter },
            params.initials)
    ELSE reachable_map_filtered(Reversed(g),
            { e \in edge_references(Reversed(g)) : <<e.source, e.target, e.id>> \in edge_filter },
            params.initials)

(* the (source, target, edge) triples with_edge_filter calls the filter     *)
(* with, for the edges the traversal can come to                            *)
edge_filter_calls(g, params) ==
    IF params.direction = "Forward"
    THEN { <<e.source, e.target, e.id>> : e \in edge_references(g) }
    ELSE { <<e.target, e.source, e.id>> : e \in edge_references(Reversed(g)) }

ResolveCore_with_edge_filter_unfiltered(g, params, edge_filter) == ResolveCore_new(g, params)

ResolveCore_with_edge_filter(g, params, edge_filter) ==
    IF params.direction = "Forward"
    THEN reachable_map_filtered(g,
            { e \in edge_references(g) : <<e.source, e.target, e.id>> \in edge_filter },
            params.initials)
    ELSE reachable_map_filtered(Reversed(g),
            { e \in edge_references(Reversed(g)) : <<e.target, e.source, e.id>> \in edge_filter },
            params.initials)

ResolveCore_from_included(included) ==
    [included |-> included, len |-> count_ones(included)]

ResolveCore_len(self) == self.len
ResolveCore_is_empty(self) == self.len = 0
ResolveCore_contains(self, ix) == is_visited(self.included, ix)

(* invalidate_caches that keeps the len it has                              *)
invalidate_caches_keeps_len(self) == self

invalidate_caches(self) == [self EXCEPT !.len = count_ones(self.included)]

union_with_exclusive(self, other) ==
    invalidate_caches(
        [self EXCEPT !.included = FixedBitSet_symmetric_difference_with(@, other.included)])

union_with(self, other) ==
    invalidate_caches([self EXCEPT !.included = FixedBitSet_union_with(@, other.included)])

intersect_with(self, other) ==
    invalidate_caches([self EXCEPT !.included = FixedBitSet_intersect_with(@, other.included)])

ResolveCore_difference(self, other) ==
    ResolveCore_from_included(FixedBitSet_difference_collect(self.included, other.included))

symmetric_difference_with(self, other) ==
    invalidate_caches(
        [self EXCEPT !.included = FixedBitSet_symmetric_difference_with(@, other.included)])

(* PackageSet: the graph it refers to is dep_graph, its core is the set     *)
PackageSet_new(g, params) == ResolveCore_new(g, params)
resolve_all(g) == ResolveCore_all_nodes(g)
PackageSet_with_resolver(g, params, resolver) == ResolveCore_with_edge_filter(g, params, resolver)
PackageSet_union(self, other) == union_with(self, other)
PackageSet_intersection(self, other) == intersect_with(self, other)
PackageSet_difference(self, other) == ResolveCore_difference(self, other)
PackageSet_symmetric_difference(self, other) == symmetric_difference_with(self, other)

----------------------------------------------------------------------------
(* Sccs: the strongly connected components of the whole graph, in the      *)
(* order of petgraph's kosaraju_scc: a component comes after every          *)
(* component it has an edge to.  The order of the nodes inside a component  *)
(* and of unrelated components is not fixed by that.                        *)

scc_of(g, ix) ==
    { m \in NodeIxs(g) : has_path_connecting(g, ix, m) /\ has_path_connecting(g, m, ix) }

NodeOrders(g) ==
    { o \in [1 .. node_count(g) -> NodeIxs(g)] : \A i, j \in DOMAIN o : i # j => o[i] # o[j] }

PostOrders(g) ==
    { o \in NodeOrders(g) :
        /\ \A i, j, k \in DOMAIN o :
              (i < j /\ j < k /\ o[k] \in scc_of(g, o[i])) => o[j] \in scc_of(g, o[i])
        /\ \A e \in edge_references(g) : \A i, j \in DOMAIN o :
              (o[i] = e.source /\ o[j] = e.target /\ e.target \notin scc_of(g, e.source))
                  => j < i }

(* the components of an order: its maximal runs of nodes of one component   *)
SccRuns(g, o) ==
    LET heads == SelectSeq([i \in DOMAIN o |-> i],
                           LAMBDA i : i = 1 \/ o[i] \notin scc_of(g, o[i - 1]))
    IN [k \in DOMAIN heads |->
           SubSeq(o, heads[k], IF k < Len(heads) THEN heads[k + 1] - 1 ELSE Len(o))]

(* the values kosaraju_scc can return for g                                 *)
kosaraju_scc(g) == { SccRuns(g, o) : o \in PostOrders(g) }

RECURSIVE Flatten(_)
Flatten(ss) == IF ss = <<>> THEN <<>> ELSE Head(ss) \o Flatten(Tail(ss))

ReverseSeq(s) == [i \in DOMAIN s |-> s[Len(s) + 1 - i]]

(* Sccs::node_iter: Outgoing (Forward) runs from the last component to the  *)
(* first, Incoming (Reverse) from the first to the last                     *)
node_iter(s, direction) ==
    IF direction = "Forward" THEN ReverseSeq(Flatten(s)) ELSE Flatten(s)

(* NodeFiltered: the included nodes and the edges between them              *)
NodeFiltered(g, included) == [graph |-> g, included |-> included]

filtered_edge_references(fg) ==
    { e \in edge_references(fg.graph) :
        is_visited(fg.included, e.source) /\ is_visited(fg.included, e.target) }

SccMembers(s, ix) == UNION { Range(s[k]) : k \in { j \in DOMAIN s : ix \in Range(s[j]) } }

(* Sccs::externals: the nodes of the filtered graph whose component has no  *)
(* edge of the filtered graph coming into it from another component, in     *)
(* the order of the components                                              *)
externals(s, fg) ==
    SelectSeq(Flatten(s),
              LAMBDA ix :
                 /\ is_visited(fg.included, ix)
                 /\ \A e \in filtered_edge_references(fg) :
                       e.target \in SccMembers(s, ix) => e.source \in SccMembers(s, ix))

ResolveCore_roots_without_direction(self, g, s, direction) ==
    externals(s, NodeFiltered(g, self.included))

ResolveCore_roots(self, g, s, direction) ==
    IF direction = "Forward" THEN externals(s, NodeFiltered(g, self.included))
    ELSE externals(s, NodeFiltered(Reversed(g), self.included))

(* Topo: [node_iter, included, remaining]                                   *)
ResolveCore_topo_without_direction(self, s, direction) ==
    [node_iter |-> node_iter(s, "Reverse"), included |-> self.included,
     remaining |-> self.len]

ResolveCore_topo(self, s, direction) ==
    [node_iter |-> node_iter(s, direction), included |-> self.included,
     remaining |-> self.len]

(* Topo::next: [item, iter], the item returned and the iterator after it    *)
RECURSIVE Topo_next(_)
Topo_next_every_node(t) ==
    IF t.node_iter = <<>> THEN [item |-> None, iter |-> t]
    ELSE [item |-> Some(Head(t.node_iter)),
          iter |-> [t EXCEPT !.node_iter = Tail(@), !.remaining = @ - 1]]

Topo_next(t) ==
    IF t.node_iter = <<>> THEN [item |-> None, iter |-> t]
    ELSE LET ix == Head(t.node_iter)
             rest == [t EXCEPT !.node_iter = Tail(@)]
         IN IF ~is_visited(t.included, ix) THEN Topo_next(rest)
            ELSE [item |-> Some(ix), iter |-> [rest EXCEPT !.remaining = @ - 1]]

Topo_size_hint(t) == <<t.remaining, Some(t.remaining)>>
Topo_len(t) == t.remaining

(* EdgeDfs: a stack of (source, target, edge) triples, the next to visit    *)
(* last, and the set of edges already visited                               *)
out_edges(fg, ix) ==
    LET all == [i \in DOMAIN fg.graph.edges |->
                   <<fg.graph.edges[i].source, fg.graph.edges[i].target, i - 1>>]
    IN SelectSeq(all, LAMBDA t : t[1] = ix /\ is_visited(fg.included, t[1])
                                              /\ is_visited(fg.included, t[2]))

RECURSIVE OutEdgesOfAll(_, _)
OutEdgesOfAll(fg, ixs) ==
    IF ixs = <<>> THEN <<>> ELSE out_edges(fg, Head(ixs)) \o OutEdgesOfAll(fg, Tail(ixs))

EdgeDfs_new(fg, initials) == [stack |-> OutEdgesOfAll(fg, initials), discovered |-> {}]

RECURSIVE EdgeDfs_next(_, _)
EdgeDfs_next(d, fg) ==
    IF d.stack = <<>> THEN [item |-> None, iter |-> d]
    ELSE LET top == d.stack[Len(d.stack)]
             rest == SubSeq(d.stack, 1, Len(d.stack) - 1)
         IN IF top[3] \in d.discovered
            THEN EdgeDfs_next([d EXCEPT !.stack = rest], fg)
            ELSE [item |-> Some(top),
                  iter |-> [stack |-> rest \o out_edges(fg, top[2]),
                            discovered |-> d.discovered \cup {top[3]}]]

(* Links: [included, edge_dfs, direction]; the graph is dep_graph           *)
ResolveCore_links(self, g, s, direction) ==
    [included |-> self.included,
     direction |-> direction,
     edge_dfs |-> IF direction = "Forward"
                  THEN EdgeDfs_new(NodeFiltered(g, self.included),
                                   externals(s, NodeFiltered(g, self.included)))
                  ELSE EdgeDfs_new(NodeFiltered(Reversed(g), self.included),
                                   externals(s, NodeFiltered(Reversed(g), self.included)))]

Links_next_without_swap(l, g) ==
    LET r == EdgeDfs_next(l.edge_dfs,
                          NodeFiltered(IF l.direction = "Forward" THEN g ELSE Reversed(g),
                                       l.included))
    IN [item |-> r.item, iter |-> [l EXCEPT !.edge_dfs = r.iter]]

Links_next(l, g) ==
    IF l.direction = "Forward"
    THEN LET r == EdgeDfs_next(l.edge_dfs, NodeFiltered(g, l.included))
         IN [item |-> r.item, iter |-> [l EXCEPT !.edge_dfs = r.iter]]
    ELSE LET r == EdgeDfs_next(l.edge_dfs, NodeFiltered(Reversed(g), l.included))
         IN [item |-> IF IsSome(r.item)
                      THEN Some(<<r.item[1][2], r.item[1][1], r.item[1][3]>>)
                      ELSE None,
             iter |-> [l EXCEPT !.edge_dfs = r.iter]]

----------------------------------------------------------------------------
(* the variables of the builder while SplitSpec or ResolveSpec is run       *)
BuilderIdle ==
    /\ pg = [packages |-> <<>>, links |-> <<>>]
    /\ pc = "idle"
    /\ next_ix = 0
    /\ named_done = {}
    /\ links_done = {}
    /\ graph = EmptyGraph
    /\ base_ixs = <<>>
    /\ map = <<>>
    /\ warnings = <<>>
    /\ clean = FeatureGraphBuildState_new

(* the variables of SplitSpec and of ResolveSpec while they are not run     *)
SplitIdle == split_token = <<>> /\ split_result = None

EmptyCore == ResolveCore_from_included(FixedBitSet_with_capacity(0))

(* last: the call that made core, with its arguments                        *)
NoCall ==
    [op |-> "none", params |-> Forward(<<>>), resolver |-> {}, lhs |-> EmptyCore,
     rhs |-> EmptyCore, rhs_params |-> None, depth |-> 0]

(* iter: the iterator or the vector of roots taken from core                *)
NoIter == [kind |-> "none", direction |-> "Forward", state |-> <<>>, yielded |-> <<>>,
           done |-> FALSE]

ResolveIdle ==
    /\ dep_graph = EmptyGraph
    /\ sccs = None
    /\ kpc = "idle"
    /\ core = EmptyCore
    /\ last = NoCall
    /\ iter = NoIter

(* a OnceCell: incomplete, running its initialiser, or complete with a      *)
(* value                                                                    *)
EmptyCell == [state |-> "incomplete", value |-> None]

(* once: the cell of the feature graph, the cell of its Sccs, the callers,  *)
(* and how many times each initialiser has run to completion                *)
NoOnce ==
    [feature_graph |-> EmptyCell, sccs |-> EmptyCell, callers |-> <<>>,
     completed |-> [feature_graph |-> 0, sccs |-> 0]]

OnceIdle == once = NoOnce

(* FeatureGraphImpl::new, one builder call per step.                        *)

package_count(g) == Cardinality(DOMAIN g.packages)

Self == [graph |-> graph, base_ixs |-> base_ixs, map |-> map, warnings |-> warnings,
         panicked |-> FALSE]

Store(st) ==
    /\ graph' = st.graph
    /\ base_ixs' = st.base_ixs
    /\ map' = st.map
    /\ warnings' = st.warnings

Init ==
    /\ pg \in PackageGraphs
    /\ pc = "nodes"
    /\ next_ix = 0
    /\ named_done = {}
    /\ links_done = {}
    /\ graph = FeatureGraphBuildState_new.graph
    /\ base_ixs = FeatureGraphBuildState_new.base_ixs
    /\ map = FeatureGraphBuildState_new.map
    /\ warnings = FeatureGraphBuildState_new.warnings
    /\ clean = FeatureGraphBuildState_new
    /\ SplitIdle
    /\ ResolveIdle
    /\ OnceIdle

(* the node loop: packages in increasing index order                        *)
AddNodes ==
    /\ pc = "nodes"
    /\ next_ix < package_count(pg)
    /\ Store(add_nodes(Self, pg.packages[next_ix]))
    /\ clean' = add_nodes(clean, CleanGraph(pg).packages[next_ix])
    /\ next_ix' = next_ix + 1
    /\ UNCHANGED <<pg, pc, named_done, links_done>>
    /\ UNCHANGED <<svars, kvars, ovars>>

EndNodes ==
    /\ pc = "nodes"
    /\ next_ix = package_count(pg)
    /\ Store(end_nodes(Self))
    /\ clean' = end_nodes(clean)
    /\ pc' = "named"
    /\ UNCHANGED <<pg, next_ix, named_done, links_done>>
    /\ UNCHANGED <<svars, kvars, ovars>>

(* the loop over resolve_all().packages(Reverse): every package once        *)
AddNamedFeatureEdges ==
    /\ pc = "named"
    /\ \E ix \in PackageIxs \ named_done :
        /\ Store(add_named_feature_edges(Self, pg, pg.packages[ix]))
        /\ clean' = add_named_feature_edges(clean, CleanGraph(pg), CleanGraph(pg).packages[ix])
        /\ named_done' = named_done \cup {ix}
        /\ pc' = IF named_done' = PackageIxs THEN "deps" ELSE "named"
    /\ UNCHANGED <<pg, next_ix, links_done>>
    /\ UNCHANGED <<svars, kvars, ovars>>

(* the loop over resolve_all().links(Reverse): every link once              *)
AddDependencyEdges ==
    /\ pc = "deps"
    /\ \E i \in DOMAIN pg.links \ links_done :
        LET u == Unified(Self, pg, pg.links[i])
        IN \E required_order \in Orders(DOMAIN u.required.features),
              optional_order \in Orders(DOMAIN u.optional.features) :
            LET st == add_dependency_edges(Self, pg, pg.links[i],
                                           required_order, optional_order)
            IN /\ Store(st)
               /\ clean' = add_dependency_edges(clean, CleanGraph(pg), CleanGraph(pg).links[i],
                                                required_order, optional_order)
               /\ links_done' = links_done \cup {i}
               /\ pc' = IF st.panicked THEN "panicked" ELSE "deps"
    /\ UNCHANGED <<pg, next_ix, named_done>>
    /\ UNCHANGED <<svars, kvars, ovars>>

Build ==
    /\ pc = "deps"
    /\ links_done = DOMAIN pg.links
    /\ pc' = "done"
    /\ UNCHANGED <<pg, next_ix, named_done, links_done, graph, base_ixs, map, warnings, clean>>
    /\ UNCHANGED <<svars, kvars, ovars>>

Next ==
    \/ AddNodes
    \/ EndNodes
    \/ AddNamedFeatureEdges
    \/ AddDependencyEdges
    \/ Build

Spec == Init /\ [][Next]_vars

TypeOK ==
    /\ pc \in {"nodes", "named", "deps", "done", "panicked"}
    /\ Len(base_ixs) <= package_count(pg) + 1

----------------------------------------------------------------------------
(* FeatureGraph: the queries on the built graph.  fg = [package_graph,      *)
(* inner], inner being the FeatureGraphImpl that build() returns.           *)

Ok(value) == [ok |-> TRUE, value |-> <<value>>, error |-> <<>>]
Err(error) == [ok |-> FALSE, value |-> <<>>, error |-> <<error>>]
UnknownFeatureId(package_id, feature) ==
    [name |-> "UnknownFeatureId", package_id |-> package_id, feature |-> feature]

FeatureGraphOf(g, st) ==
    [ package_graph |-> g,
      inner |-> [graph |-> st.graph, base_ixs |-> st.base_ixs, map |-> st.map,
                 warnings |-> st.warnings] ]

FeatureNode_from_id(fg, id) ==
    LET md == metadata(fg.package_graph, id.package_id)
    IN IF ~IsSome(md) THEN None
       ELSE IF IsSome(id.feature)
            THEN IF IsSome(get_feature_idx(Unwrap(md), Unwrap(id.feature)))
                 THEN Some(FeatureNode_new(Unwrap(md).package_ix,
                                           Unwrap(get_feature_idx(Unwrap(md), Unwrap(id.feature)))))
                 ELSE None
            ELSE Some(FeatureNode_base(Unwrap(md).package_ix))

metadata_impl(fg, feature_id) ==
    LET feature_node == FeatureNode_from_id(fg, feature_id)
    IN IF IsSome(feature_node) /\ Unwrap(feature_node) \in DOMAIN fg.inner.map
       THEN Some(fg.inner.map[Unwrap(feature_node)])
       ELSE None

feature_ix(fg, feature_id) ==
    IF IsSome(metadata_impl(fg, feature_id))
    THEN Some(Unwrap(metadata_impl(fg, feature_id)).feature_ix)
    ELSE None

feature_ix_err(fg, feature_id) ==
    IF IsSome(feature_ix(fg, feature_id))
    THEN Ok(Unwrap(feature_ix(fg, feature_id)))
    ELSE Err(UnknownFeatureId(feature_id.package_id, feature_id.feature))

feature_ix_depends_on(fg, a_ix, b_ix) ==
    has_path_connecting(fg.inner.graph, a_ix, b_ix)

(* is_default_feature with the base node in the place of the default        *)
is_default_feature_from_base(fg, feature_id) ==
    LET md == metadata(fg.package_graph, feature_id.package_id)
    IN IF ~IsSome(md) THEN None
       ELSE LET default_ix == feature_ix(fg, FeatureId(Unwrap(md).id, None))
                ix == feature_ix(fg, feature_id)
            IN IF ~IsSome(default_ix) \/ ~IsSome(ix) THEN None
               ELSE Some(feature_ix_depends_on(fg, Unwrap(default_ix), Unwrap(ix)))

is_default_feature(fg, feature_id) ==
    LET md == metadata(fg.package_graph, feature_id.package_id)
    IN IF ~IsSome(md) THEN None
       ELSE LET default_ix == feature_ix(fg, default_feature_id(Unwrap(md)))
                ix == feature_ix(fg, feature_id)
            IN IF ~IsSome(default_ix) \/ ~IsSome(ix) THEN None
               ELSE Some(feature_ix_depends_on(fg, Unwrap(default_ix), Unwrap(ix)))

(* depends_on with the second argument looked up first                      *)
depends_on_second_argument_first(fg, feature_a, feature_b) ==
    LET a_ix == feature_ix_err(fg, feature_a)
        b_ix == feature_ix_err(fg, feature_b)
    IN IF ~b_ix.ok THEN b_ix
       ELSE IF ~a_ix.ok THEN a_ix
            ELSE Ok(feature_ix_depends_on(fg, Unwrap(a_ix.value), Unwrap(b_ix.value)))

depends_on(fg, feature_a, feature_b) ==
    LET a_ix == feature_ix_err(fg, feature_a)
        b_ix == feature_ix_err(fg, feature_b)
    IN IF ~a_ix.ok THEN a_ix
       ELSE IF ~b_ix.ok THEN b_ix
            ELSE Ok(feature_ix_depends_on(fg, Unwrap(a_ix.value), Unwrap(b_ix.value)))

directly_depends_on(fg, feature_a, feature_b) ==
    LET a_ix == feature_ix_err(fg, feature_a)
        b_ix == feature_ix_err(fg, feature_b)
    IN IF ~a_ix.ok THEN a_ix
       ELSE IF ~b_ix.ok THEN b_ix
            ELSE Ok(contains_edge(fg.inner.graph, Unwrap(a_ix.value), Unwrap(b_ix.value)))

feature_ixs_for_package_ix(fg, ix) ==
    fg.inner.base_ixs[ix + 1] .. (fg.inner.base_ixs[ix + 2] - 1)

(* the feature graph of the current state, and the feature ids queried      *)
FG == FeatureGraphOf(pg, Self)
QueryNames == {XName, YName, BName, DefaultName}
FeatureIds ==
    { FeatureId(package_id, feature) :
        package_id \in PackageIds,
        feature \in {None} \cup { Some(name) : name \in QueryNames } }

----------------------------------------------------------------------------
(* Notions the properties are stated with.                                  *)

Built == pc = "done"
NodesAdded == pc \in {"named", "deps", "done"}

NodeAt(ix) == graph.nodes[ix + 1]
EdgeSet(g) == Range(g.edges)
SourceNode(e) == NodeAt(e.source)
TargetNode(e) == NodeAt(e.target)
CrossPackage(e) == SourceNode(e).package_ix # TargetNode(e).package_ix
IsBase(node) == node.feature_idx = None
TypeOf(node) == map[node].feature_type

----------------------------------------------------------------------------
DepTokenEdge(e) ==
    /\ TypeOf(SourceNode(e)) = "NamedFeature"
    /\ LET package == pg.packages[SourceNode(e).package_ix]
           feature == package.features[Unwrap(SourceNode(e).feature_idx) + 1]
       IN \E i \in DOMAIN feature.deps :
            LET split == split_feature_dep(feature.deps[i])
            IN /\ IsSome(split.dep_name)
               /\ \E l \in Range(pg.links) :
                    /\ l.from = package.package_ix
                    /\ l.dep_name = Unwrap(split.dep_name)
                    /\ l.to = TargetNode(e).package_ix
                    /\ get_feature_idx(pg.packages[l.to], split.to_feature_name)
                            = TargetNode(e).feature_idx

----------------------------------------------------------------------------
FeatureToBaseEdges(ix) ==
    { i \in DOMAIN graph.edges :
        graph.edges[i].source = ix /\ graph.edges[i].weight.kind = "FeatureToBase" }

(* C2: once the nodes are added, and through the phases that add the named  *)
(* feature edges and the dependency edges, every non-base node has exactly  *)
(* one outgoing FeatureToBase edge, and it leads to the base node of the    *)
(* node's package.                                                          *)
C2_OneFeatureToBase ==
    NodesAdded =>
        \A ix \in NodeIxs(graph) :
            ~IsBase(NodeAt(ix)) =>
                /\ Cardinality(FeatureToBaseEdges(ix)) = 1
                /\ \A i \in FeatureToBaseEdges(ix) :
                      TargetNode(graph.edges[i]) = FeatureNode_base(NodeAt(ix).package_ix)

C2_Witness ==
    /\ Built
    /\ \E e \in EdgeSet(graph) :
          TypeOf(SourceNode(e)) = "OptionalDep" /\ e.weight.kind = "Dependency"
    /\ \E e \in EdgeSet(graph) :
          TypeOf(SourceNode(e)) = "NamedFeature" /\ e.weight.kind = "FeatureDependency"

----------------------------------------------------------------------------
(* C3: after add_nodes for every package in index order and end_nodes,      *)
(* base_ixs has one entry per package and one more, its last entry is the   *)
(* node count, the nodes of package i have the indexes from base_ixs[i] up  *)
(* to but not including base_ixs[i+1], and base_ixs[i] is its base node.    *)
C3_BaseIxs ==
    NodesAdded =>
        /\ Len(base_ixs) = package_count(pg) + 1
        /\ base_ixs[Len(base_ixs)] = node_count(graph)
        /\ \A ix \in NodeIxs(graph) :
              /\ base_ixs[NodeAt(ix).package_ix + 1] <= ix
              /\ ix < base_ixs[NodeAt(ix).package_ix + 2]
        /\ \A p \in PackageIxs :
              /\ NodeAt(base_ixs[p + 1]) = FeatureNode_base(p)
              /\ \A ix \in feature_ixs_for_package_ix(FG, p) : NodeAt(ix).package_ix = p

C3_Witness ==
    /\ NodesAdded
    /\ Cardinality(feature_ixs_for_package_ix(FG, 0)) = 4
    /\ Cardinality(feature_ixs_for_package_ix(FG, 1)) = 1

----------------------------------------------------------------------------
(* C4: in a built graph, for every feature id f that resolves,              *)
(* depends_on(f, f) is true and directly_depends_on(f, f) is false.         *)
C4_SelfDependence ==
    Built =>
        \A f \in FeatureIds :
            IsSome(feature_ix(FG, f)) =>
                /\ depends_on(FG, f, f) = Ok(TRUE)
                /\ directly_depends_on(FG, f, f) = Ok(FALSE)

----------------------------------------------------------------------------
(* What the links of the package graph ask for, read off the package graph. *)

(* the feature of package to that a build_if status goes to is the base,    *)
(* a default_features_if status goes to the feature named default, or the   *)
(* base without one, and a feature_targets entry goes to the feature named  *)
DefaultKey(to) ==
    IF HasFeature(to, DefaultName) THEN get_feature_idx(to, DefaultName) ELSE None

Contributions(req, to, key) ==
    (IF key = None THEN {req.build_if} ELSE {})
    \cup (IF key = DefaultKey(to) THEN {req.default_features_if} ELSE {})
    \cup { req.feature_targets[j][2] :
             j \in { k \in DOMAIN req.feature_targets :
                       /\ HasFeature(to, req.feature_targets[k][1])
                       /\ get_feature_idx(to, req.feature_targets[k][1]) = key } }

UnionStatus(S) ==
    IF \E s \in S : s.always THEN Always ELSE OnSpecs(UNION { s.specs : s \in S })

(* the node a side of a link hangs its edges from                           *)
SideSource(g, l, side) ==
    IF side = "required" THEN FeatureNode_base(l.from)
    ELSE FeatureNode_new_opt(l.from, get_feature_idx(g.packages[l.from], l.dep_name))

(* the statuses asked, for one dependency kind, of the edge src -> dst      *)
Asked(g, src, dst, kind) ==
    UNION { Contributions(l[kind][side], g.packages[l.to], dst.feature_idx) :
              <<l, side>> \in { x \in Range(g.links) \X Sides :
                                  /\ x[1].to = dst.package_ix
                                  /\ SideSource(g, x[1], x[2]) = src } }

ParallelEdges(g) ==
    { <<i, j>> \in (DOMAIN g.edges) \X (DOMAIN g.edges) :
        /\ i # j
        /\ g.edges[i].source = g.edges[j].source
        /\ g.edges[i].target = g.edges[j].target }

(* C5: in a built graph there is one edge for each (source, target) pair,   *)
(* and each predicate of a Dependency edge is the union of the statuses     *)
(* that all the links of the package graph contribute to its pair for that  *)
(* dependency kind.                                                         *)
C5_UnifiedEdges ==
    Built =>
        /\ ParallelEdges(graph) = {}
        /\ \A e \in EdgeSet(graph) :
              e.weight.kind = "Dependency" =>
                  \A kind \in Kinds :
                      e.weight[kind] = UnionStatus(Asked(pg, SourceNode(e), TargetNode(e), kind))

(* the features of package to that a sub-request asks for                   *)
AskedKeys(req, to) ==
    { key \in {None} \cup { Some(n) : n \in 0 .. (Len(to.features) + Len(to.optional_deps) - 1) } :
        \E s \in Contributions(req, to, key) : ~is_never(s) }

(* C6: in a built graph, what the required side of a link asks for is on    *)
(* Dependency edges out of the base node of the link's source package, and  *)
(* what its optional side asks for is on Dependency edges out of the        *)
(* optional-dependency feature node named after the dependency; and the     *)
(* predicates of a Dependency edge hold nothing but what the side of its    *)
(* source node contributed.                                                 *)
C6_RequiredAndOptionalEdges ==
    Built =>
        /\ \A l \in Range(pg.links) : \A kind \in Kinds : \A side \in Sides :
              \A key \in AskedKeys(l[kind][side], pg.packages[l.to]) :
                  \E e \in EdgeSet(graph) :
                      /\ e.weight.kind = "Dependency"
                      /\ SourceNode(e) = SideSource(pg, l, side)
                      /\ TargetNode(e) = FeatureNode_new_opt(l.to, key)
        /\ \A e \in EdgeSet(graph) :
              e.weight.kind = "Dependency" =>
                  /\ \/ IsBase(SourceNode(e))
                     \/ TypeOf(SourceNode(e)) = "OptionalDep"
                  /\ \A kind \in Kinds :
                        StatusLeq(e.weight[kind],
                                  UnionStatus(Asked(pg, SourceNode(e), TargetNode(e), kind)))

C6_Witness ==
    /\ Built
    /\ \E l \in Range(pg.links) :
          /\ \E kind \in Kinds : AskedKeys(l[kind]["required"], pg.packages[l.to]) # {}
          /\ \E kind \in Kinds : AskedKeys(l[kind]["optional"], pg.packages[l.to]) # {}
    /\ \E e \in EdgeSet(graph) :
          e.weight.kind = "Dependency" /\ IsBase(SourceNode(e))
    /\ \E e \in EdgeSet(graph) :
          e.weight.kind = "Dependency" /\ TypeOf(SourceNode(e)) = "OptionalDep"

----------------------------------------------------------------------------
(* the references of the package graph to features their target lacks       *)
MissingTokens(g) ==
    UNION { UNION { { <<p, i, t>> :
                        t \in { u \in DOMAIN g.packages[p].features[i].deps :
                                  MissingToken(g, g.packages[p],
                                               g.packages[p].features[i].deps[u]) } } :
                    i \in DOMAIN g.packages[p].features } :
            p \in PackageIxs }

MissingTargets(g) ==
    UNION { UNION { { <<n, slot, j>> :
                        j \in { k \in DOMAIN g.links[n][slot[1]][slot[2]].feature_targets :
                                  ~HasFeature(g.packages[g.links[n].to],
                                       g.links[n][slot[1]][slot[2]].feature_targets[k][1]) } } :
                    slot \in Slots } :
            n \in DOMAIN g.links }

(* C7: through the whole construction the builder holds the same nodes,     *)
(* edges, node metadata and base indexes as the same builder steps run on   *)
(* the package graph with the references to missing features removed, and   *)
(* it panics exactly when that run panics; that run pushes no warning,      *)
(* every warning of the builder names a feature its package lacks, and the  *)
(* built graph carries one warning for each reference to a missing feature. *)
C7_MissingReferences ==
    /\ graph.nodes = clean.graph.nodes
    /\ EdgeSet(graph) = EdgeSet(clean.graph)
    /\ map = clean.map
    /\ base_ixs = clean.base_ixs
    /\ (pc = "panicked") <=> clean.panicked
    /\ clean.warnings = <<>>
    /\ \A i \in DOMAIN warnings :
          /\ IsSome(metadata(pg, warnings[i].package_id))
          /\ ~HasFeature(Unwrap(metadata(pg, warnings[i].package_id)), warnings[i].feature_name)
    /\ Built => Len(warnings) = Cardinality(MissingTokens(pg)) + Cardinality(MissingTargets(pg))

C7_Witness ==
    /\ Built
    /\ Cardinality(MissingTargets(pg)) = 2
    /\ Len(warnings) = 2
    /\ graph.edges # <<>>

----------------------------------------------------------------------------
(* the warnings phase B pushed for the named feature i of package p         *)
NamedFeatureWarnings(p, i) ==
    { j \in DOMAIN warnings :
        /\ warnings[j].stage = "AddNamedFeatureEdges"
        /\ warnings[j].stage_package_id = pg.packages[p].id
        /\ warnings[j].stage_name = pg.packages[p].features[i].name }

(* the node a token of package p that names an existing feature stands for  *)
TokenTargets(p, token) ==
    LET split == split_feature_dep(token)
    IN IF TokenClass(pg, pg.packages[p], token) = "own_feature"
       THEN { FeatureNode_new_opt(p, get_feature_idx(pg.packages[p], split.to_feature_name)) }
       ELSE IF TokenClass(pg, pg.packages[p], token) = "dep_feature"
            THEN { FeatureNode_new_opt(l.to,
                        get_feature_idx(pg.packages[l.to], split.to_feature_name)) :
                     l \in { k \in DirectDeps(pg, pg.packages[p], Unwrap(split.dep_name)) :
                               HasFeature(pg.packages[k.to], split.to_feature_name) } }
            ELSE {}

(* C8: once phase B is over, for every named feature: each of its tokens    *)
(* that names a missing feature of a direct dependency or of its own        *)
(* package has its MissingFeature warning of stage AddNamedFeatureEdges,    *)
(* the feature has as many such warnings as it has such tokens (so a token  *)
(* with an unknown dependency name has none), and its FeatureDependency     *)
(* edges lead exactly to the nodes of its tokens that name an existing      *)
(* feature.                                                                 *)
C8_NamedFeatureWarnings ==
    pc \in {"deps", "done", "panicked"} =>
        \A p \in PackageIxs : \A i \in DOMAIN pg.packages[p].features :
            LET package == pg.packages[p]
                deps == package.features[i].deps
                missing == { t \in DOMAIN deps : MissingToken(pg, package, deps[t]) }
            IN /\ Cardinality(NamedFeatureWarnings(p, i)) = Cardinality(missing)
               /\ \A t \in missing :
                     \E j \in NamedFeatureWarnings(p, i) :
                        /\ warnings[j].feature_name = split_feature_dep(deps[t]).to_feature_name
                        /\ warnings[j].package_id =
                              IF IsSome(split_feature_dep(deps[t]).dep_name)
                              THEN PackageIdOf[(CHOOSE l \in DirectDeps(pg, package,
                                        Unwrap(split_feature_dep(deps[t]).dep_name)) : TRUE).to + 1]
                              ELSE package.id
               /\ { TargetNode(e) : e \in { d \in EdgeSet(graph) :
                                              /\ d.weight.kind = "FeatureDependency"
                                              /\ SourceNode(d) = FeatureNode_new(p, i - 1) } }
                    = UNION { TokenTargets(p, deps[t]) : t \in DOMAIN deps }

C8_Witness ==
    /\ pc = "done"
    /\ \E p \in PackageIxs : \E i \in DOMAIN pg.packages[p].features :
          /\ pg.packages[p].features[i].deps = <<DepFeature(BName, YName)>>
          /\ DirectDeps(pg, pg.packages[p], BName) # {}
          /\ Cardinality(NamedFeatureWarnings(p, i)) = 1

----------------------------------------------------------------------------
NamedFeatureIdxs(package) == 0 .. (Len(package.features) - 1)
OptionalDepIdxs(package) ==
    Len(package.features) .. (Len(package.features) + Len(package.optional_deps) - 1)

NodesOf(node) == { ix \in NodeIxs(graph) : NodeAt(ix) = node }

(* C9: once the nodes are added, for every package the feature indices of   *)
(* its non-base nodes are its named-feature indices together with its       *)
(* optional-dependency indices, each of them has exactly one node, of type  *)
(* NamedFeature for a named feature and OptionalDep for an optional         *)
(* dependency, and the metadata map has an entry for exactly the nodes of   *)
(* the graph, each holding the graph index of its node.                     *)
C9_NodesAndMetadata ==
    NodesAdded =>
        /\ \A p \in PackageIxs :
              /\ { Unwrap(NodeAt(ix).feature_idx) :
                     ix \in { k \in NodeIxs(graph) :
                                NodeAt(k).package_ix = p /\ ~IsBase(NodeAt(k)) } }
                   = NamedFeatureIdxs(pg.packages[p]) \cup OptionalDepIdxs(pg.packages[p])
              /\ \A idx \in NamedFeatureIdxs(pg.packages[p]) :
                    /\ Cardinality(NodesOf(FeatureNode_new(p, idx))) = 1
                    /\ TypeOf(FeatureNode_new(p, idx)) = "NamedFeature"
              /\ \A idx \in OptionalDepIdxs(pg.packages[p]) :
                    /\ Cardinality(NodesOf(FeatureNode_new(p, idx))) = 1
                    /\ TypeOf(FeatureNode_new(p, idx)) = "OptionalDep"
        /\ DOMAIN map = Range(graph.nodes)
        /\ \A ix \in NodeIxs(graph) : map[NodeAt(ix)].feature_ix = ix

C9_Witness ==
    /\ Built
    /\ Len(pg.packages[0].features) = 2
    /\ Len(pg.packages[0].optional_deps) = 1
    /\ node_count(graph) >= 5

----------------------------------------------------------------------------
(* there is a path of zero or more edges from node index a to node index b: *)
(* b is in every set of node indexes that holds a and is closed under edges *)
PathExists(a, b) ==
    \A S \in SUBSET NodeIxs(graph) :
        (a \in S /\ \A e \in EdgeSet(graph) : e.source \in S => e.target \in S) => b \in S

Resolves(f) ==
    /\ f.package_id \in Range(PackageIdOf)
    /\ \/ f.feature = None
       \/ HasFeature(Unwrap(metadata(pg, f.package_id)), Unwrap(f.feature))

DeclaresDefault(package) ==
    \E i \in DOMAIN package.features : package.features[i].name = DefaultName

(* the node of a feature id that resolves, and its position in the graph    *)
NodeOfId(f) ==
    LET package == Unwrap(metadata(pg, f.package_id))
    IN IF f.feature = None THEN FeatureNode_base(package.package_ix)
       ELSE FeatureNode_new_opt(package.package_ix, get_feature_idx(package, Unwrap(f.feature)))

IxOfId(f) == CHOOSE ix \in NodeIxs(graph) : NodeAt(ix) = NodeOfId(f)

DefaultOf(package) ==
    IF DeclaresDefault(package) THEN FeatureId(package.id, Some(DefaultName))
    ELSE FeatureId(package.id, None)

(* C10: in a built graph is_default_feature(f) is None for a feature id     *)
(* that does not resolve, and otherwise it is whether the graph has a path  *)
(* of zero or more edges from the node of the default feature of f's        *)
(* package, its base node when it declares no default, to the node of f;    *)
(* and the base feature of a package that declares no default is a default  *)
(* feature.                                                                 *)
C10_IsDefaultFeature ==
    Built =>
        /\ \A f \in FeatureIds :
              is_default_feature(FG, f) =
                  IF Resolves(f)
                  THEN Some(PathExists(
                           IxOfId(DefaultOf(Unwrap(metadata(pg, f.package_id)))), IxOfId(f)))
                  ELSE None
        /\ \A p \in PackageIxs :
              ~DeclaresDefault(pg.packages[p]) =>
                  is_default_feature(FG, FeatureId(pg.packages[p].id, None)) = Some(TRUE)

C10_Witness ==
    /\ Built
    /\ DeclaresDefault(pg.packages[0])
    /\ is_default_feature(FG, FeatureId("A", Some(XName))) = Some(TRUE)
    /\ is_default_feature(FG, FeatureId("A", Some(BName))) = Some(FALSE)
    /\ is_default_feature(FG, FeatureId("A", Some(YName))) = None
    /\ is_default_feature(FG, FeatureId(UnknownPackageId, None)) = None

----------------------------------------------------------------------------
(* the feature ids the error results are checked on                         *)
ErrorIds ==
    { FeatureId("A", None), FeatureId("A", Some(XName)), FeatureId(UnknownPackageId, None) }

(* C11: on a built graph depends_on(a, b) and directly_depends_on(a, b)     *)
(* return the error UnknownFeatureId with the package id and the feature    *)
(* of a when a does not resolve, with those of b when a resolves and b      *)
(* does not, and a boolean when both resolve.                               *)
C11_UnknownFeatureId ==
    Built =>
        \A a \in ErrorIds : \A b \in ErrorIds :
            \A r \in {depends_on(FG, a, b), directly_depends_on(FG, a, b)} :
                IF ~Resolves(a) THEN r = Err(UnknownFeatureId(a.package_id, a.feature))
                ELSE IF ~Resolves(b) THEN r = Err(UnknownFeatureId(b.package_id, b.feature))
                     ELSE r.ok /\ Unwrap(r.value) \in BOOLEAN

C11_Witness ==
    /\ Built
    /\ ~Resolves(FeatureId("A", Some(XName)))
    /\ depends_on(FG, FeatureId("A", Some(XName)), FeatureId(UnknownPackageId, None))
          = Err(UnknownFeatureId("A", Some(XName)))
    /\ directly_depends_on(FG, FeatureId("A", None), FeatureId("A", Some(XName)))
          = Err(UnknownFeatureId("A", Some(XName)))
    /\ depends_on(FG, FeatureId("A", None), FeatureId(UnknownPackageId, None))
          = Err(UnknownFeatureId(UnknownPackageId, None))
    /\ depends_on(FG, FeatureId("A", None), FeatureId("A", None)) = Ok(TRUE)

----------------------------------------------------------------------------
(* SplitSpec: split_feature_dep on the tokens over a, b and '/'.            *)

MaxTokenLen == 5
SplitChars == {"a", "b", Slash}
SplitTokens == SeqsUpTo(SplitChars, MaxTokenLen)

SplitInit ==
    /\ BuilderIdle
    /\ ResolveIdle
    /\ OnceIdle
    /\ split_token \in SplitTokens
    /\ split_result = None

SplitFeatureDep ==
    /\ split_result = None
    /\ split_result' = Some(split_feature_dep(split_token))
    /\ UNCHANGED <<split_token, bvars, kvars, ovars>>

SplitNext == SplitFeatureDep

SplitSpec == SplitInit /\ [][SplitNext]_vars

HasSlash(name) == \E i \in DOMAIN name : name[i] = Slash

(* C12: split_feature_dep(t) has no dependency name exactly when t has no   *)
(* '/', and then its feature name is t, the empty token included; when t    *)
(* has a '/', the feature name has no '/' and the dependency name, a '/'    *)
(* and the feature name joined give back t.                                 *)
C12_SplitFeatureDep ==
    IsSome(split_result) =>
        LET r == Unwrap(split_result)
        IN /\ IsSome(r.dep_name) <=> HasSlash(split_token)
           /\ ~HasSlash(r.to_feature_name)
           /\ ~IsSome(r.dep_name) => r.to_feature_name = split_token
           /\ IsSome(r.dep_name) =>
                 Unwrap(r.dep_name) \o <<Slash>> \o r.to_feature_name = split_token
           /\ split_token = <<>> => r = [dep_name |-> None, to_feature_name |-> <<>>]

C12_Witness ==
    /\ split_token = <<"a", Slash, "b", Slash, "a">>
    /\ split_result = Some([dep_name |-> Some(<<"a", Slash, "b">>), to_feature_name |-> <<"a">>])

----------------------------------------------------------------------------
(* PackageGraph::resolve_all and PackageSet over a package graph of three   *)
(* packages, one call per step: a set is resolved, combined with other      *)
(* sets, and then its roots, its packages or its links are read.            *)

MaxEdges == 3
MaxInitials == 2
MaxSetOps == 1

KernelPackages == <<"a", "b", "c">>
KernelIxs == 0 .. (Len(KernelPackages) - 1)

(* the links a package graph can have: no package links to itself           *)
KernelPairs ==
    SelectSeq([k \in 1 .. (Len(KernelPackages) * Len(KernelPackages)) |->
                  <<(k - 1) \div Len(KernelPackages), (k - 1) % Len(KernelPackages)>>],
              LAMBDA pr : pr[1] # pr[2])

PairsIn(S) == SelectSeq(KernelPairs, LAMBDA pr : pr \in S)

DepGraphs ==
    { [nodes |-> KernelPackages,
       edges |-> [i \in DOMAIN PairsIn(S) |->
                     [source |-> PairsIn(S)[i][1], target |-> PairsIn(S)[i][2],
                      weight |-> "link"]]] :
        S \in { T \in SUBSET Range(KernelPairs) : Cardinality(T) <= MaxEdges } }

Directions == {"Forward", "Reverse"}

Initials ==
    { s \in SeqsUpTo(KernelIxs, MaxInitials) : \A i, j \in DOMAIN s : i # j => s[i] # s[j] }

Params == { [direction |-> d, initials |-> s] : d \in Directions, s \in Initials }

(* a PackageResolver is the set of links it accepts                         *)
Resolvers(g) == SUBSET { <<e.source, e.target, e.id>> : e \in edge_references(g) }

SingleParams == { [direction |-> d, initials |-> <<ix>>] : d \in Directions, ix \in KernelIxs }

ResolveInit ==
    /\ BuilderIdle
    /\ SplitIdle
    /\ OnceIdle
    /\ dep_graph \in DepGraphs
    /\ sccs = None
    /\ kpc = "idle"
    /\ core = EmptyCore
    /\ last = NoCall
    /\ iter = NoIter

(* graph.resolve_all()                                                      *)
ResolveAll ==
    /\ kpc = "idle"
    /\ core' = resolve_all(dep_graph)
    /\ last' = [NoCall EXCEPT !.op = "resolve_all"]
    /\ kpc' = "set"
    /\ UNCHANGED <<dep_graph, sccs, iter, bvars, svars, ovars>>

(* PackageSet::new(graph, params)                                           *)
Resolve ==
    /\ kpc = "idle"
    /\ \E params \in Params :
          /\ core' = PackageSet_new(dep_graph, params)
          /\ last' = [NoCall EXCEPT !.op = "new", !.params = params]
    /\ kpc' = "set"
    /\ UNCHANGED <<dep_graph, sccs, iter, bvars, svars, ovars>>

(* PackageSet::with_resolver(graph, params, resolver)                       *)
ResolveWith ==
    /\ kpc = "idle"
    /\ \E params \in SingleParams, resolver \in Resolvers(dep_graph) :
          /\ core' = PackageSet_with_resolver(dep_graph, params, resolver)
          /\ last' = [NoCall EXCEPT !.op = "with_resolver", !.params = params,
                                    !.resolver = resolver]
    /\ kpc' = "set"
    /\ UNCHANGED <<dep_graph, sccs, iter, bvars, svars, ovars>>

(* the sets a set is combined with: itself, every package, and the sets     *)
(* resolved from one package                                                *)
Operands ==
    { [set |-> core, params |-> None], [set |-> resolve_all(dep_graph), params |-> None] }
        \cup { [set |-> PackageSet_new(dep_graph, params), params |-> Some(params)] :
                 params \in SingleParams }

Combined(op, result, other) ==
    /\ core' = result
    /\ last' = [NoCall EXCEPT !.op = op, !.lhs = core, !.rhs = other.set,
                              !.rhs_params = other.params, !.depth = last.depth + 1]
    /\ UNCHANGED <<dep_graph, sccs, kpc, iter, bvars, svars, ovars>>

(* self.union(&other)                                                       *)
Union ==
    /\ kpc = "set" /\ last.depth < MaxSetOps
    /\ \E other \in Operands : Combined("union", PackageSet_union(core, other.set), other)

(* self.intersection(&other)                                                *)
Intersection ==
    /\ kpc = "set" /\ last.depth < MaxSetOps
    /\ \E other \in Operands :
          Combined("intersection", PackageSet_intersection(core, other.set), other)

(* self.difference(&other)                                                  *)
Difference ==
    /\ kpc = "set" /\ last.depth < MaxSetOps
    /\ \E other \in Operands :
          Combined("difference", PackageSet_difference(core, other.set), other)

(* self.symmetric_difference(&other)                                        *)
SymmetricDifference ==
    /\ kpc = "set" /\ last.depth < MaxSetOps
    /\ \E other \in Operands :
          Combined("symmetric_difference",
                   PackageSet_symmetric_difference(core, other.set), other)

(* PackageGraph::sccs: computed on the first call that needs them           *)
SccsReady ==
    IF sccs = None THEN \E s \in kosaraju_scc(dep_graph) : sccs' = Some(s)
    ELSE sccs' = sccs

(* self.root_ids(direction)                                                 *)
Roots ==
    /\ kpc = "set"
    /\ SccsReady
    /\ \E direction \in Directions :
          iter' = [NoIter EXCEPT !.kind = "roots", !.direction = direction,
                     !.yielded = ResolveCore_roots(core, dep_graph, sccs'[1], direction),
                     !.done = TRUE]
    /\ kpc' = "roots"
    /\ UNCHANGED <<dep_graph, core, last, bvars, svars, ovars>>

(* self.package_ids(direction): the iterator is made                        *)
TopoStart ==
    /\ kpc = "set"
    /\ SccsReady
    /\ \E direction \in Directions :
          iter' = [NoIter EXCEPT !.kind = "topo", !.direction = direction,
                     !.state = ResolveCore_topo(core, sccs'[1], direction)]
    /\ kpc' = "topo"
    /\ UNCHANGED <<dep_graph, core, last, bvars, svars, ovars>>

(* one call of Topo::next                                                   *)
TopoNext ==
    /\ kpc = "topo" /\ ~iter.done
    /\ LET r == Topo_next(iter.state)
       IN iter' = [iter EXCEPT !.state = r.iter,
                               !.yielded = IF IsSome(r.item) THEN Append(@, r.item[1]) ELSE @,
                               !.done = ~IsSome(r.item)]
    /\ UNCHANGED <<dep_graph, sccs, kpc, core, last, bvars, svars, ovars>>

(* self.links(direction): the iterator is made                              *)
LinksStart ==
    /\ kpc = "set"
    /\ SccsReady
    /\ \E direction \in Directions :
          iter' = [NoIter EXCEPT !.kind = "links", !.direction = direction,
                     !.state = ResolveCore_links(core, dep_graph, sccs'[1], direction)]
    /\ kpc' = "links"
    /\ UNCHANGED <<dep_graph, core, last, bvars, svars, ovars>>

(* one call of Links::next                                                  *)
LinksNext ==
    /\ kpc = "links" /\ ~iter.done
    /\ LET r == Links_next(iter.state, dep_graph)
       IN iter' = [iter EXCEPT !.state = r.iter,
                               !.yielded = IF IsSome(r.item) THEN Append(@, r.item[1]) ELSE @,
                               !.done = ~IsSome(r.item)]
    /\ UNCHANGED <<dep_graph, sccs, kpc, core, last, bvars, svars, ovars>>

ResolveNext ==
    \/ ResolveAll
    \/ Resolve
    \/ ResolveWith
    \/ Union
    \/ Intersection
    \/ Difference
    \/ SymmetricDifference
    \/ Roots
    \/ TopoStart
    \/ TopoNext
    \/ LinksStart
    \/ LinksNext

ResolveSpec == ResolveInit /\ [][ResolveNext]_vars

----------------------------------------------------------------------------
(* the packages a search in the given direction from the initial packages   *)
(* has to find, by the paths of the package graph                           *)
Reachable(g, direction, roots) ==
    { n \in NodeIxs(g) :
        \E i \in roots : IF direction = "Forward" THEN has_path_connecting(g, i, n)
                         ELSE has_path_connecting(g, n, i) }

(* C13: a set made by new(graph, Forward(initials)) holds exactly the nodes *)
(* that can be reached from an initial node, one made with Reverse exactly  *)
(* the nodes from which an initial node can be reached; its len is the      *)
(* number of nodes it holds; and the initials in any other order give the   *)
(* same set.                                                                *)
C13_ReachableSet ==
    last.op = "new" =>
        LET expected == Reachable(dep_graph, last.params.direction,
                                  Range(last.params.initials))
        IN /\ \A ix \in KernelIxs : ResolveCore_contains(core, ix) <=> ix \in expected
           /\ ResolveCore_len(core) = Cardinality(expected)
           /\ \A other \in Initials :
                 Range(other) = Range(last.params.initials)
                    => PackageSet_new(dep_graph,
                                      [last.params EXCEPT !.initials = other]) = core

C13_Witness ==
    /\ last.op = "new"
    /\ kpc = "set"
    /\ last.params = Reverse(<<2, 0>>)
    /\ Len(dep_graph.edges) = 1
    /\ ResolveCore_contains(core, 1)
    /\ ResolveCore_len(core) = 3

----------------------------------------------------------------------------
(* the package graph without the links the resolver does not accept         *)
AcceptedGraph(g, resolver) ==
    [g EXCEPT !.edges = SelectSeq([i \in DOMAIN g.edges |->
                                      [g.edges[i] EXCEPT !.weight = i - 1]],
                                  LAMBDA e : <<e.source, e.target, e.weight>> \in resolver)]

(* C14: a set resolved with a PackageResolver holds exactly the packages    *)
(* that a path of accepted links connects to an initial package, in the     *)
(* direction of the query: a link that is not accepted is not followed, and *)
(* a package reached by accepted links is in the set whatever other links   *)
(* into it were rejected.                                                   *)
C14_AcceptedLinksOnly ==
    last.op = "with_resolver" =>
        LET expected == Reachable(AcceptedGraph(dep_graph, last.resolver),
                                  last.params.direction, Range(last.params.initials))
        IN /\ \A ix \in KernelIxs : ResolveCore_contains(core, ix) <=> ix \in expected
           /\ ResolveCore_len(core) = Cardinality(expected)

(* 0 -> 1 is rejected, and 1 is reached through 2; in another graph the     *)
(* rejected link is the only one into its package, which is left out        *)
C14_Witness ==
    /\ last.op = "with_resolver"
    /\ kpc = "set"
    /\ last.params = Forward(<<0>>)
    /\ \E e \in edge_references(dep_graph) :
          /\ e.source = 0 /\ e.target = 1
          /\ <<e.source, e.target, e.id>> \notin last.resolver
    /\ ResolveCore_contains(core, 1)
    /\ ResolveCore_len(core) = 3

C14_WitnessRejected ==
    /\ last.op = "with_resolver"
    /\ kpc = "set"
    /\ last.params = Reverse(<<2>>)
    /\ \E e \in edge_references(dep_graph) :
          /\ e.source = 1 /\ e.target = 2
          /\ <<e.source, e.target, e.id>> \notin last.resolver
    /\ \E e \in edge_references(dep_graph) :
          /\ e.source = 0 /\ e.target = 2
          /\ <<e.source, e.target, e.id>> \in last.resolver
    /\ ~ResolveCore_contains(core, 1)
    /\ ResolveCore_contains(core, 0)

----------------------------------------------------------------------------
(* everything an iterator made by topo yields, from its first item on       *)
RECURSIVE TopoCollect(_)
TopoCollect(t) ==
    LET r == Topo_next(t)
    IN IF IsSome(r.item) THEN <<r.item[1]>> \o TopoCollect(r.iter) ELSE <<>>

NoRepeats(s) == \A i, j \in DOMAIN s : i # j => s[i] # s[j]

OtherDirection(direction) == IF direction = "Forward" THEN "Reverse" ELSE "Forward"

(* C15: the iterator of topo yields included nodes only and none twice;     *)
(* after each call its size_hint is the number of included nodes it has not *)
(* yielded yet; when it ends it has yielded every included node, len() of   *)
(* the set in all; and the iteration in the other direction yields the same *)
(* nodes, each once.  Graphs with cycles are among the graphs checked.      *)
C15_TopoYieldsTheSet ==
    kpc = "topo" =>
        LET to_come == core.included.bits \ Range(iter.yielded)
            other == TopoCollect(ResolveCore_topo(core, sccs[1],
                                                  OtherDirection(iter.direction)))
        IN /\ NoRepeats(iter.yielded)
           /\ \A i \in DOMAIN iter.yielded : ResolveCore_contains(core, iter.yielded[i])
           /\ Range(iter.yielded) \subseteq NodeIxs(dep_graph)
           /\ Topo_size_hint(iter.state) = <<Cardinality(to_come), Some(Cardinality(to_come))>>
           /\ Len(iter.yielded) + Cardinality(to_come) = ResolveCore_len(core)
           /\ iter.done =>
                 /\ to_come = {}
                 /\ Len(iter.yielded) = ResolveCore_len(core)
                 /\ NoRepeats(other) /\ Range(other) = Range(iter.yielded)

(* a set of two packages that depend on each other, without the third       *)
C15_Witness ==
    /\ kpc = "topo"
    /\ iter.done
    /\ iter.direction = "Reverse"
    /\ contains_edge(dep_graph, 0, 1) /\ contains_edge(dep_graph, 1, 0)
    /\ Len(iter.yielded) = 2
    /\ ~ResolveCore_contains(core, 2)
    /\ last.op = "new"

----------------------------------------------------------------------------
(* b can be reached from a and a cannot be reached from b: a and b are in   *)
(* different strongly connected components, a's before b's                  *)
StrictlyBefore(g, a, b) == has_path_connecting(g, a, b) /\ ~has_path_connecting(g, b, a)

(* C16: in the topological iteration of a set made by resolve_all or by an  *)
(* unfiltered query, of two yielded nodes a and b in different strongly     *)
(* connected components with a path from a to b, Forward yields a before b  *)
(* and Reverse yields b before a.                                           *)
C16_TopoOrder ==
    (kpc = "topo" /\ last.op \in {"new", "resolve_all"}) =>
        \A i, j \in DOMAIN iter.yielded :
            StrictlyBefore(dep_graph, iter.yielded[i], iter.yielded[j]) =>
                IF iter.direction = "Forward" THEN i < j ELSE j < i

(* 0 -> 1, and 1 and 2 in a cycle: 0 comes first in Forward                  *)
C16_Witness ==
    /\ kpc = "topo"
    /\ iter.done
    /\ iter.direction = "Forward"
    /\ last.op = "new" /\ last.params = Forward(<<0>>)
    /\ contains_edge(dep_graph, 0, 1)
    /\ contains_edge(dep_graph, 1, 2) /\ contains_edge(dep_graph, 2, 1)
    /\ iter.yielded = <<0, 2, 1>>

C16_WitnessReverse ==
    /\ kpc = "topo"
    /\ iter.done
    /\ iter.direction = "Reverse"
    /\ last.op = "resolve_all"
    /\ contains_edge(dep_graph, 0, 1) /\ contains_edge(dep_graph, 1, 2)
    /\ iter.yielded = <<2, 1, 0>>

----------------------------------------------------------------------------
(* the included nodes with a link to ix (Forward), or that ix has a link to *)
(* (Reverse)                                                                *)
IncludedBefore(g, self, direction, ix) ==
    { m \in NodeIxs(g) :
        /\ ResolveCore_contains(self, m)
        /\ IF direction = "Forward" THEN contains_edge(g, m, ix) ELSE contains_edge(g, ix, m) }

C17_WitnessAcyclic ==
    /\ kpc = "roots"
    /\ iter.direction = "Reverse"
    /\ last.op = "new" /\ last.params = Forward(<<1>>)
    /\ contains_edge(dep_graph, 0, 1) /\ contains_edge(dep_graph, 1, 2)
    /\ iter.yielded = <<2>>

----------------------------------------------------------------------------
(* a yielded triple (from, to, edge) is the edge of the graph it names      *)
RightWayUp(g, link) ==
    /\ link[3] + 1 \in DOMAIN g.edges
    /\ g.edges[link[3] + 1].source = link[1]
    /\ g.edges[link[3] + 1].target = link[2]

(* the end of a link that is met first in the direction: from in Forward    *)
NearEnd(direction, link) == IF direction = "Forward" THEN link[1] ELSE link[2]
FarEnd(direction, link) == IF direction = "Forward" THEN link[2] ELSE link[1]

C18_WitnessForward ==
    /\ kpc = "links"
    /\ iter.done
    /\ iter.direction = "Forward"
    /\ contains_edge(dep_graph, 0, 1) /\ contains_edge(dep_graph, 1, 2)
    /\ contains_edge(dep_graph, 2, 1)
    /\ Len(iter.yielded) = 3

----------------------------------------------------------------------------
(* the last call combined a set with itself                                 *)
WithItself == last.depth > 0 /\ last.rhs = last.lhs

(* C19: for every resolved set r, r.union(r) and r.intersection(r) equal r  *)
(* (the same included bitset and len), and r.difference(r) is empty: its    *)
(* len is 0, is_empty is true, and contains is false for every node.        *)
C19_SetWithItself ==
    WithItself =>
        /\ last.op = "union" => core = last.lhs
        /\ last.op = "intersection" => core = last.lhs
        /\ last.op = "difference" =>
              /\ ResolveCore_len(core) = 0
              /\ ResolveCore_is_empty(core)
              /\ \A ix \in KernelIxs : ~ResolveCore_contains(core, ix)

C19_Witness ==
    /\ WithItself
    /\ kpc = "set"
    /\ last.op = "difference"
    /\ ResolveCore_len(last.lhs) = 2
    /\ ResolveCore_is_empty(core)

C19_WitnessUnion ==
    /\ WithItself
    /\ kpc = "set"
    /\ last.op = "union"
    /\ ResolveCore_len(last.lhs) = 2
    /\ ResolveCore_len(core) = 2

----------------------------------------------------------------------------
(* the last call combined resolve_all() with the set resolved from one      *)
(* package                                                                  *)
AllWithSingle ==
    /\ last.depth = 1
    /\ last.lhs = resolve_all(dep_graph)
    /\ IsSome(last.rhs_params)

(* C20: with R1 = resolve_all() and R2 resolved from a single package,      *)
(* R1.union(R2) = R1, R1.intersection(R2) = R2, the len of R1.difference(R2) *)
(* is R1.len() - R2.len(), and R1.symmetric_difference(R2) =                *)
(* R1.difference(R2), where sets are equal when their included bitsets and  *)
(* their lens are equal.                                                    *)
C20_SetAlgebra ==
    AllWithSingle =>
        /\ last.op = "union" => core = last.lhs
        /\ last.op = "intersection" => core = last.rhs
        /\ last.op = "difference" =>
              ResolveCore_len(core) = ResolveCore_len(last.lhs) - ResolveCore_len(last.rhs)
        /\ last.op = "symmetric_difference" =>
              core = PackageSet_difference(last.lhs, last.rhs)

(* what holds of the symmetric difference: the same members and len as the  *)
(* difference, in a bitset that need not have the same length               *)
C20_SetAlgebraByMembers ==
    AllWithSingle =>
        /\ last.op = "union" => core = last.lhs
        /\ last.op = "intersection" => core = last.rhs
        /\ last.op = "difference" =>
              ResolveCore_len(core) = ResolveCore_len(last.lhs) - ResolveCore_len(last.rhs)
        /\ last.op = "symmetric_difference" =>
              /\ core.included.bits = PackageSet_difference(last.lhs, last.rhs).included.bits
              /\ core.len = PackageSet_difference(last.lhs, last.rhs).len

(* 0 -> 1 -> 2 and R2 resolved from 1: the symmetric difference is {0} in a *)
(* bitset of three bits, the difference {0} in a bitset of one bit          *)
C20_Witness ==
    /\ AllWithSingle
    /\ last.op = "symmetric_difference"
    /\ last.rhs_params = Some(Forward(<<1>>))
    /\ contains_edge(dep_graph, 0, 1) /\ contains_edge(dep_graph, 1, 2)
    /\ core.included = [length |-> 3, bits |-> {0}]
    /\ PackageSet_difference(last.lhs, last.rhs).included = [length |-> 1, bits |-> {0}]

----------------------------------------------------------------------------
(* the cached values of a ResolveCore agree with its bitset                 *)
CachesAgree(r) ==
    /\ ResolveCore_len(r) = Cardinality({ ix \in KernelIxs : ResolveCore_contains(r, ix) })
    /\ r.included.bits \subseteq KernelIxs
    /\ ResolveCore_is_empty(r) = (ResolveCore_len(r) = 0)
    /\ ResolveCore_from_included(r.included) = r

(* C23: whatever calls made it, a ResolveCore has len equal to the number   *)
(* of bits set in included, is_empty() exactly when len is 0, and           *)
(* from_included of its bitset gives its bitset and its len again.  This    *)
(* holds of the current set and of both operands of the last set operation. *)
C23_LenIsPopcount ==
    /\ CachesAgree(core)
    /\ CachesAgree(last.lhs)
    /\ CachesAgree(last.rhs)

(* the symmetric difference of all three packages with the set of two: len  *)
(* has gone from 3 to 1                                                     *)
C23_Witness ==
    /\ kpc = "set"
    /\ last.op = "symmetric_difference"
    /\ ResolveCore_len(last.lhs) = 3
    /\ ResolveCore_len(last.rhs) = 2
    /\ ResolveCore_len(core) = 1
    /\ ~ResolveCore_is_empty(core)

----------------------------------------------------------------------------
(* the node the traversal of a query leaves an edge from, and the node it   *)
(* arrives at: source and target under Forward, target and source under     *)
(* Reverse                                                                  *)
LeftFrom(direction, e) == IF direction = "Forward" THEN e.source ELSE e.target
ArrivedAt(direction, e) == IF direction = "Forward" THEN e.target ELSE e.source

(* C27: every argument triple with_edge_filter hands to the filter is the   *)
(* stored (source, target, edge index) of an edge of the graph, under       *)
(* Forward and under Reverse.  Under Reverse the traversal goes from the    *)
(* target of an edge to its source, under Forward from source to target:    *)
(* every initial is included, the far node of an accepted edge that leaves  *)
(* an included node is included, and every included node that is not an     *)
(* initial is the far node of an accepted edge that leaves an included      *)
(* node.                                                                    *)
C27_FilterArguments ==
    last.op = "with_resolver" =>
        LET direction == last.params.direction
            accepted == { e \in edge_references(dep_graph) :
                            <<e.source, e.target, e.id>> \in last.resolver }
        IN /\ \A call \in edge_filter_calls(dep_graph, last.params) :
                 RightWayUp(dep_graph, call)
           /\ \A ix \in Range(last.params.initials) : ResolveCore_contains(core, ix)
           /\ \A e \in accepted :
                 ResolveCore_contains(core, LeftFrom(direction, e))
                    => ResolveCore_contains(core, ArrivedAt(direction, e))
           /\ \A ix \in KernelIxs :
                 (ResolveCore_contains(core, ix) /\ ix \notin Range(last.params.initials))
                    => \E e \in accepted :
                          /\ ArrivedAt(direction, e) = ix
                          /\ ResolveCore_contains(core, LeftFrom(direction, e))

(* 0 -> 1 -> 2 queried in Reverse from 2 with both links accepted: the      *)
(* traversal goes 2, 1, 0                                                   *)
C27_Witness ==
    /\ last.op = "with_resolver"
    /\ kpc = "set"
    /\ last.params = Reverse(<<2>>)
    /\ contains_edge(dep_graph, 0, 1) /\ contains_edge(dep_graph, 1, 2)
    /\ Len(dep_graph.edges) = 2
    /\ Cardinality(last.resolver) = 2
    /\ ResolveCore_len(core) = 3

----------------------------------------------------------------------------
(* the edges of the whole graph that lie on a cycle: the two ends of such   *)
(* an edge are in one strongly connected component, and any two nodes of a  *)
(* component are joined by a path of such edges                             *)
CycleEdges(g) ==
    { e \in edge_references(g) : has_path_connecting(g, e.target, e.source) }

(* if one node of a component is in the set, every node of it is            *)
SccClosed(cycle_edges, r) ==
    \A e \in cycle_edges :
        ResolveCore_contains(r, e.source) <=> ResolveCore_contains(r, e.target)

(* C30: a set made by new, in either direction, or by all_nodes is closed   *)
(* under the strongly connected components of the whole graph, and so is    *)
(* the union, intersection, difference and symmetric difference of two      *)
(* sets that are.  (A set made by with_edge_filter can hold a part of a     *)
(* component: C30_WitnessFiltered.)                                         *)
C30_SccClosed ==
    LET cycle_edges == CycleEdges(dep_graph)
    IN /\ last.op \in {"new", "resolve_all"} => SccClosed(cycle_edges, core)
       /\ (last.depth > 0 /\ SccClosed(cycle_edges, last.lhs)
                          /\ SccClosed(cycle_edges, last.rhs))
             => SccClosed(cycle_edges, core)

(* 0 and 1 depend on each other and 2 on 0: the set resolved in Reverse     *)
(* from 1 holds all three, and without the set resolved forward from 0 it   *)
(* is 2 alone                                                               *)
C30_Witness ==
    /\ kpc = "set"
    /\ last.op = "difference"
    /\ contains_edge(dep_graph, 0, 1) /\ contains_edge(dep_graph, 1, 0)
    /\ contains_edge(dep_graph, 2, 0)
    /\ ResolveCore_len(last.lhs) = 3
    /\ last.rhs_params = Some(Forward(<<0>>))
    /\ ResolveCore_len(last.rhs) = 2
    /\ SccClosed(CycleEdges(dep_graph), last.lhs)
    /\ core.included.bits = {2}

(* 0 and 1 depend on each other; with the link 0 -> 1 rejected, the set     *)
(* resolved from 0 holds 0 without 1                                        *)
C30_WitnessFiltered ==
    /\ kpc = "set"
    /\ last.op = "with_resolver"
    /\ last.params = Forward(<<0>>)
    /\ contains_edge(dep_graph, 0, 1) /\ contains_edge(dep_graph, 1, 0)
    /\ ~SccClosed(CycleEdges(dep_graph), core)

----------------------------------------------------------------------------
(* the link the step has taken from the ones still to do                    *)
LinkTaken(i) == i \in DOMAIN pg.links \ links_done /\ links_done' = links_done \cup {i}

(* C22: a second construction from the same package graph, which differs    *)
(* from this one in nothing but the order in which the two maps of a link   *)
(* are iterated, builds the same graph, edge indexes included, and the same *)
(* warning sequence: whatever link a step processes, every iteration order  *)
(* of its required and optional maps gives the graph and the warnings the   *)
(* step has given.                                                          *)
C22_SameInEveryRun ==
    [][\A i \in DOMAIN pg.links :
          (pc = "deps" /\ LinkTaken(i)) =>
              LET u == Unified(Self, pg, pg.links[i])
              IN \A required_order \in Orders(DOMAIN u.required.features),
                    optional_order \in Orders(DOMAIN u.optional.features) :
                  LET st == add_dependency_edges(Self, pg, pg.links[i],
                                                 required_order, optional_order)
                  IN st.graph = graph' /\ st.warnings = warnings']_vars

----------------------------------------------------------------------------
(* The build that takes the packages and the links in increasing order.     *)

RECURSIVE nodes_in_order(_, _, _)
nodes_in_order(st, g, ix) ==
    IF ix = package_count(g) THEN end_nodes(st)
    ELSE nodes_in_order(add_nodes(st, g.packages[ix]), g, ix + 1)

RECURSIVE named_in_order(_, _, _)
named_in_order(st, g, ix) ==
    IF ix = package_count(g) THEN st
    ELSE named_in_order(add_named_feature_edges(st, g, g.packages[ix]), g, ix + 1)

RECURSIVE links_in_order(_, _, _)
links_in_order(st, g, i) ==
    IF i > Len(g.links) \/ st.panicked THEN st
    ELSE LET u == Unified(st, g, g.links[i])
         IN links_in_order(
                add_dependency_edges(st, g, g.links[i],
                    CHOOSE order \in Orders(DOMAIN u.required.features) : TRUE,
                    CHOOSE order \in Orders(DOMAIN u.optional.features) : TRUE),
                g, i + 1)

InOrder(g) ==
    links_in_order(named_in_order(nodes_in_order(FeatureGraphBuildState_new, g, 0), g, 0), g, 1)

(* the edges of a graph by the nodes they join, with their payloads         *)
EdgesByNode(g) ==
    { <<g.nodes[e.source + 1], g.nodes[e.target + 1], e.weight>> : e \in Range(g.edges) }

(* how many times each warning is in a sequence of warnings                 *)
Multiset(s) == [w \in Range(s) |-> Cardinality({ i \in DOMAIN s : s[i] = w })]

(* C28: whatever the order in which the packages were taken for their named *)
(* features and the links for their dependency edges, the built graph has   *)
(* the nodes, the edges with their payloads, and the multiset of warnings   *)
(* of the build that takes them in increasing order.                        *)
C28_AnyOrder ==
    Built =>
        /\ Range(graph.nodes) = Range(InOrder(pg).graph.nodes)
        /\ EdgesByNode(graph) = EdgesByNode(InOrder(pg).graph)
        /\ Multiset(warnings) = Multiset(InOrder(pg).warnings)

(* the same where no two links join the same two packages                   *)
C28_AnyOrderOfSingleLinks ==
    (\A i, j \in DOMAIN pg.links :
        (pg.links[i].from = pg.links[j].from /\ pg.links[i].to = pg.links[j].to) => i = j)
    => C28_AnyOrder

----------------------------------------------------------------------------
(* update_edge on a pair that has an edge: the payload is the new one and   *)
(* the number of edges is the same                                          *)
ReAddReplaces(g) ==
    \A i \in DOMAIN g.edges :
        LET again == update_edge(g, g.edges[i].source, g.edges[i].target, FeatureDependency)
        IN /\ Len(again.edges) = Len(g.edges)
           /\ again.edges[i].weight = FeatureDependency
           /\ \A j \in DOMAIN g.edges \ {i} : again.edges[j] = g.edges[j]

(* C29: after every builder call the graph has at most one edge for an      *)
(* ordered pair of nodes, adding an edge for a pair that has one replaces   *)
(* the payload and adds no edge, and, each package and each link being      *)
(* processed once, every edge that was in the graph before the call is      *)
(* there after it with the payload it had.                                  *)
C29_OneEdgePerPair ==
    [][/\ ParallelEdges(graph') = {}
       /\ ReAddReplaces(graph')
       /\ \A i \in DOMAIN graph.edges :
             i \in DOMAIN graph'.edges /\ graph'.edges[i] = graph.edges[i]]_vars

----------------------------------------------------------------------------
(* The link loop of FeatureGraphImpl::new on the package graphs with rich   *)
(* links, from the state the node loop and the named-feature loop leave.    *)

AfterNamedFeatures(g) ==
    named_in_order(nodes_in_order(FeatureGraphBuildState_new, g, 0), g, 0)

LinkInit ==
    /\ pg \in { g \in ReqGraphs : \A l \in Range(g.links) : l.from # l.to }
    /\ pc = "deps"
    /\ next_ix = package_count(pg)
    /\ named_done = PackageIxs
    /\ links_done = {}
    /\ graph = AfterNamedFeatures(pg).graph
    /\ base_ixs = AfterNamedFeatures(pg).base_ixs
    /\ map = AfterNamedFeatures(pg).map
    /\ warnings = AfterNamedFeatures(pg).warnings
    /\ clean = AfterNamedFeatures(CleanGraph(pg))
    /\ SplitIdle
    /\ ResolveIdle
    /\ OnceIdle

LinkNext ==
    \/ AddDependencyEdges
    \/ Build

LinkSpec == LinkInit /\ [][LinkNext]_vars

----------------------------------------------------------------------------
(* the two requests of a link after the first n dependency kinds            *)
UnifiedUpTo(g, link, n) ==
    unify([required |-> FeatureReq_new(g, link), optional |-> FeatureReq_new(g, link),
           warnings |-> <<>>], g, link, SubSeq(UnifiedKinds, 1, n))

NonEmptyEntries(req) ==
    \A key \in DOMAIN req.features : ~DependencyBuildState_is_empty(req.features[key])

(* every predicate of the sub-request is never                              *)
AllNever(req) ==
    /\ is_never(req.build_if)
    /\ is_never(req.default_features_if)
    /\ \A j \in DOMAIN req.feature_targets : is_never(req.feature_targets[j][2])

(* the Dependency edges that leave a feature node of the package            *)
OptionalEdges(g, package) ==
    { e \in EdgeSet(g) :
        /\ e.weight.kind = "Dependency"
        /\ g.nodes[e.source + 1].package_ix = package.package_ix
        /\ g.nodes[e.source + 1].feature_idx # None }

(* C24: for every link of the package graph the link loop starts on, after  *)
(* the add_features calls of any number of dependency kinds no entry of the *)
(* features map of a request has an empty build state; a                    *)
(* request whose predicates are all never has an empty map and is_empty()   *)
(* is true; and processing a link whose optional predicates are all never   *)
(* does not abort, whether or not the dependency name is a feature of the   *)
(* from package, and leaves no Dependency edge out of a feature node of the *)
(* from package.                                                            *)
C24_NonEmptyBuildStates ==
    /\ links_done = {} =>
        \A i \in DOMAIN pg.links : \A n \in 0 .. Len(UnifiedKinds) :
          LET u == UnifiedUpTo(pg, pg.links[i], n)
          IN /\ NonEmptyEntries(u.required)
             /\ NonEmptyEntries(u.optional)
             /\ (\A kind \in Kinds : AllNever(pg.links[i][kind].required))
                    => u.required.features = <<>> /\ FeatureReq_is_empty(u.required)
             /\ (\A kind \in Kinds : AllNever(pg.links[i][kind].optional))
                    => u.optional.features = <<>> /\ FeatureReq_is_empty(u.optional)
    /\ (\A i \in DOMAIN pg.links : \A kind \in Kinds : AllNever(pg.links[i][kind].optional))
          => /\ pc # "panicked"
             /\ OptionalEdges(graph, pg.packages[0]) = {}

(* the one link has been processed: its normal optional request names the   *)
(* feature x under never, its dev required request asks for the dependency, *)
(* and package 0 has no feature named after the dependency                  *)
C24_Witness ==
    /\ pc = "deps"
    /\ Len(pg.links) = 1
    /\ links_done = {1}
    /\ pg.packages[0].optional_deps = <<>>
    /\ pg.links[1].normal.optional.feature_targets = << <<XName, Never>> >>
    /\ ~is_never(pg.links[1].dev.required.build_if)
    /\ Len(graph.edges) > 0
    /\ OptionalEdges(graph, pg.packages[0]) = {}

----------------------------------------------------------------------------
(* one add_features call on a new request                                   *)
AddedAlone(g, link, kind, side) ==
    add_features([req |-> FeatureReq_new(g, link), warnings |-> <<>>],
                 g, kind, link[kind][side]).req

(* the link asks for the default features of its destination on this side  *)
AsksDefault(link, side) ==
    \E kind \in Kinds : ~is_never(link[kind][side].default_features_if)

(* C25: for each dependency kind and each side of a link of the package     *)
(* graph the link loop starts on, a build_if that                           *)
(* is not never is in the entry of the base key None, and a                 *)
(* default_features_if that is not never is in the entry of the index of    *)
(* the destination's feature named default if it has one and in the entry   *)
(* of None if it has none; and once a link that asks for default features   *)
(* is processed, there is an edge from the node of that side to the default *)
(* feature node of the destination if and only if the destination has a     *)
(* feature named default.                                                   *)
C25_BaseAndDefaultKeys ==
    /\ links_done = {} =>
        \A i \in DOMAIN pg.links : \A kind \in Kinds : \A side \in Sides :
          LET link == pg.links[i]
              req == link[kind][side]
              to == pg.packages[link.to]
              features == AddedAlone(pg, link, kind, side).features
          IN /\ ~is_never(req.build_if) =>
                   /\ None \in DOMAIN features
                   /\ features[None][kind] = UnionStatus(Contributions(req, to, None))
                   /\ req.build_if \in Contributions(req, to, None)
             /\ (~is_never(req.default_features_if) /\ HasFeature(to, DefaultName)) =>
                   /\ get_feature_idx(to, DefaultName) # None
                   /\ get_feature_idx(to, DefaultName) \in DOMAIN features
                   /\ features[get_feature_idx(to, DefaultName)][kind] = req.default_features_if
                   /\ (is_never(req.build_if) => None \notin DOMAIN features)
             /\ (~is_never(req.default_features_if) /\ ~HasFeature(to, DefaultName)) =>
                   /\ None \in DOMAIN features
                   /\ features[None][kind]
                        = UnionStatus({req.build_if, req.default_features_if})
    /\ \A i \in links_done : \A side \in Sides :
          (pc # "panicked" /\ AsksDefault(pg.links[i], side)) =>
              LET link == pg.links[i]
                  to == pg.packages[link.to]
                  from_node == SideSource(pg, link, side)
              IN (\E e \in EdgeSet(graph) :
                      /\ SourceNode(e) = from_node
                      /\ TargetNode(e).package_ix = link.to
                      /\ TargetNode(e).feature_idx # None
                      /\ TargetNode(e).feature_idx = get_feature_idx(to, DefaultName))
                 <=> HasFeature(to, DefaultName)

(* the one link is processed; its normal required request asks for the      *)
(* dependency and its default features under cfg(unix), package 1 has the   *)
(* features x and default, and the edges to its base and to its default     *)
(* feature node are in the graph                                            *)
C25_Witness ==
    /\ pc = "deps"
    /\ Len(pg.links) = 1
    /\ links_done = {1}
    /\ pg.links[1].normal.required.default_features_if = OnSpecs({"unix"})
    /\ HasFeature(pg.packages[1], DefaultName)
    /\ \E e \in EdgeSet(graph) :
          /\ SourceNode(e) = FeatureNode_base(0)
          /\ TargetNode(e) = FeatureNode_new_opt(1, get_feature_idx(pg.packages[1], DefaultName))
          /\ e.weight.normal = OnSpecs({"unix"})
    /\ \E e \in EdgeSet(graph) :
          /\ SourceNode(e) = FeatureNode_base(0)
          /\ TargetNode(e) = FeatureNode_base(1)

(* the same where package 1 has no feature named default: one edge, to the  *)
(* base of package 1                                                        *)
C25_WitnessNoDefault ==
    /\ pc = "deps"
    /\ Len(pg.links) = 1
    /\ links_done = {1}
    /\ pg.links[1].normal.required.default_features_if = OnSpecs({"unix"})
    /\ ~HasFeature(pg.packages[1], DefaultName)
    /\ Len(graph.edges) > 0
    /\ \A e \in EdgeSet(graph) :
          SourceNode(e) = FeatureNode_base(0) => TargetNode(e) = FeatureNode_base(1)

----------------------------------------------------------------------------
(* nodes to try add_edges on: the feature nodes of the graph and some that  *)
(* no package has                                                           *)
CandidateNodes ==
    { FeatureNode_new_opt(ix, feature_idx) :
        ix \in PackageIxs, feature_idx \in {None} \cup { Some(n) : n \in 0 .. 2 } }

(* the link's optional request is not empty and its dependency name is not  *)
(* a feature of its from package                                            *)
OptionalDepMissing(g, link) ==
    /\ ~FeatureReq_is_empty(Unified(FeatureGraphBuildState_new, g, link).optional)
    /\ ~IsSome(get_feature_idx(g.packages[link.from], link.dep_name))

(* C26: the build is aborted if and only if a link has been processed whose *)
(* optional request is not empty and whose dependency name is not a feature *)
(* of the from package, so a link with an empty optional request does not   *)
(* abort it; no graph is built from a package graph that has such a link;   *)
(* and add_edges, tried on the node map the link loop starts with, aborts   *)
(* if and only if its source node or one of its target nodes is not in the  *)
(* map.                                                                     *)
C26_FatalErrors ==
    /\ pc = "panicked" <=> \E i \in links_done : OptionalDepMissing(pg, pg.links[i])
    /\ Built => \A i \in DOMAIN pg.links : ~OptionalDepMissing(pg, pg.links[i])
    /\ links_done = {} =>
        \A from_node \in CandidateNodes, to_node \in CandidateNodes :
          /\ add_edges(Self, from_node, << <<to_node, FeatureDependency>> >>).panicked
                = (from_node \notin DOMAIN map \/ to_node \notin DOMAIN map)
          /\ add_edges(Self, from_node,
                       << <<FeatureNode_base(0), FeatureDependency>>,
                          <<to_node, FeatureDependency>> >>).panicked
                = (from_node \notin DOMAIN map \/ to_node \notin DOMAIN map)

(* the link's normal optional request asks for the dependency, package 0    *)
(* has no feature named after it, and the build is aborted                  *)
C26_Witness ==
    /\ pc = "panicked"
    /\ Len(pg.links) = 1
    /\ links_done = {1}
    /\ pg.packages[0].optional_deps = <<>>
    /\ pg.links[1].normal.optional.build_if = Always
    /\ ~is_never(pg.links[1].normal.required.build_if)

(* package 0 has no feature named after the dependency, the link's optional *)
(* sub-requests are empty, and the graph is built                           *)
C26_WitnessBuilt ==
    /\ Built
    /\ Len(pg.links) = 1
    /\ pg.packages[0].optional_deps = <<>>
    /\ \A kind \in Kinds : pg.links[1][kind].optional = EmptyReq
    /\ Len(graph.edges) > 0

----------------------------------------------------------------------------
(* PackageGraph::get_feature_graph and FeatureGraph::sccs called by several *)
(* threads: OnceCell::get_or_init on the cell of the feature graph and on   *)
(* the cell of its Sccs.                                                    *)

MaxCallers == 2
Callers == 1 .. MaxCallers

(* one link from package 0 to package 1 with one normal sub-request         *)
OnceGraphs ==
    { g \in ReqGraphs :
        /\ Len(g.links) = 1
        /\ EmptyReq \in {g.links[1].normal.required, g.links[1].normal.optional}
        /\ g.links[1].build = [required |-> EmptyReq, optional |-> EmptyReq]
        /\ g.links[1].dev = [required |-> EmptyReq, optional |-> EmptyReq] }

(* a caller: where it is, the feature graph it holds and the Sccs it holds  *)
NewCaller == [pc |-> "start", inner |-> None, sccs |-> None]

(* get_or_init that does not wait for a running initialiser                 *)
OnceCell_get_or_init_without_wait(cell) ==
    IF cell.state = "complete" THEN "value" ELSE "init"

(* what get_or_init does on a cell: return its value, run the initialiser,  *)
(* or wait for the thread that is running it                                *)
OnceCell_get_or_init(cell) ==
    IF cell.state = "complete" THEN "value"
    ELSE IF cell.state = "incomplete" THEN "init"
    ELSE "wait"

(* the FeatureGraphImpl that build() returns                                *)
FeatureGraphImpl_of(st) ==
    [graph |-> st.graph, base_ixs |-> st.base_ixs, map |-> st.map, warnings |-> st.warnings]

OnceInit ==
    /\ pg \in OnceGraphs
    /\ pc = "idle"
    /\ next_ix = 0
    /\ named_done = {}
    /\ links_done = {}
    /\ graph = FeatureGraphBuildState_new.graph
    /\ base_ixs = FeatureGraphBuildState_new.base_ixs
    /\ map = FeatureGraphBuildState_new.map
    /\ warnings = FeatureGraphBuildState_new.warnings
    /\ clean = FeatureGraphBuildState_new
    /\ SplitIdle
    /\ ResolveIdle
    /\ once = [NoOnce EXCEPT !.callers = [c \in Callers |-> NewCaller]]

(* self.feature_graph.get_or_init(|| FeatureGraphImpl::new(self)): the      *)
(* caller takes the value, or starts FeatureGraphImpl::new, or waits        *)
GetFeatureGraph(c) ==
    /\ once.callers[c].pc \in {"start", "graph_wait"}
    /\ LET how == OnceCell_get_or_init(once.feature_graph)
       IN \/ /\ how = "value"
             /\ once' = [once EXCEPT !.callers[c] =
                            [@ EXCEPT !.pc = "has_graph", !.inner = once.feature_graph.value]]
             /\ UNCHANGED bvars
          \/ /\ how = "init"
             /\ once' = [once EXCEPT !.feature_graph.state = "running",
                                     !.callers[c].pc = "graph_init"]
             /\ pc' = "nodes"
             /\ next_ix' = 0
             /\ named_done' = {}
             /\ links_done' = {}
             /\ Store(FeatureGraphBuildState_new)
             /\ clean' = FeatureGraphBuildState_new
             /\ UNCHANGED pg
          \/ /\ how = "wait"
             /\ once.callers[c].pc = "start"
             /\ once' = [once EXCEPT !.callers[c].pc = "graph_wait"]
             /\ UNCHANGED bvars
    /\ UNCHANGED <<svars, kvars>>

(* FeatureGraphImpl::new has returned: the cell takes the value and the     *)
(* caller that ran it gets it                                               *)
SetFeatureGraph(c) ==
    /\ once.callers[c].pc = "graph_init"
    /\ pc = "done"
    /\ once' = [once EXCEPT
                   !.feature_graph = [state |-> "complete",
                                      value |-> Some(FeatureGraphImpl_of(Self))],
                   !.callers[c] = [@ EXCEPT !.pc = "has_graph",
                                            !.inner = Some(FeatureGraphImpl_of(Self))],
                   !.completed.feature_graph = @ + 1]
    /\ UNCHANGED <<bvars, svars, kvars>>

(* FeatureGraphImpl::new has panicked: the cell is incomplete again and the *)
(* panic goes on in the caller that ran it                                  *)
UnwindFeatureGraph(c) ==
    /\ once.callers[c].pc = "graph_init"
    /\ pc = "panicked"
    /\ once' = [once EXCEPT !.feature_graph.state = "incomplete",
                            !.callers[c].pc = "panicked"]
    /\ UNCHANGED <<bvars, svars, kvars>>

(* self.inner.sccs.get_or_init(|| Sccs::new(&self.inner.graph))             *)
GetSccs(c) ==
    /\ once.callers[c].pc \in {"has_graph", "sccs_wait"}
    /\ LET how == OnceCell_get_or_init(once.sccs)
       IN \/ /\ how = "value"
             /\ once' = [once EXCEPT !.callers[c] =
                            [@ EXCEPT !.pc = "has_sccs", !.sccs = once.sccs.value]]
          \/ /\ how = "init"
             /\ once' = [once EXCEPT !.sccs.state = "running", !.callers[c].pc = "sccs_init"]
          \/ /\ how = "wait"
             /\ once.callers[c].pc = "has_graph"
             /\ once' = [once EXCEPT !.callers[c].pc = "sccs_wait"]
    /\ UNCHANGED <<bvars, svars, kvars>>

(* Sccs::new has returned, with the components in one of the orders         *)
(* kosaraju_scc can give them in                                            *)
SetSccs(c) ==
    /\ once.callers[c].pc = "sccs_init"
    /\ \E s \in kosaraju_scc(Unwrap(once.callers[c].inner).graph) :
          once' = [once EXCEPT
                      !.sccs = [state |-> "complete", value |-> Some(s)],
                      !.callers[c] = [@ EXCEPT !.pc = "has_sccs", !.sccs = Some(s)],
                      !.completed.sccs = @ + 1]
    /\ UNCHANGED <<bvars, svars, kvars>>

OnceNext ==
    \/ \E c \in Callers : GetFeatureGraph(c)
    \/ AddNodes
    \/ EndNodes
    \/ AddNamedFeatureEdges
    \/ AddDependencyEdges
    \/ Build
    \/ \E c \in Callers : SetFeatureGraph(c)
    \/ \E c \in Callers : UnwindFeatureGraph(c)
    \/ \E c \in Callers : GetSccs(c)
    \/ \E c \in Callers : SetSccs(c)

OnceSpec == OnceInit /\ [][OnceNext]_vars

----------------------------------------------------------------------------
(* the feature graph of pg, built to the end                                *)
FullyBuilt(v) ==
    LET built == InOrder(pg)
    IN /\ Range(v.graph.nodes) = Range(built.graph.nodes)
       /\ Len(v.graph.nodes) = Len(built.graph.nodes)
       /\ EdgesByNode(v.graph) = EdgesByNode(built.graph)
       /\ Len(v.graph.edges) = Len(built.graph.edges)
       /\ v.base_ixs = built.base_ixs
       /\ v.map = built.map
       /\ v.warnings = built.warnings

(* the components of s are the strongly connected components of g           *)
ComponentsOf(g, s) ==
    /\ { Range(s[k]) : k \in DOMAIN s } = { scc_of(g, ix) : ix \in NodeIxs(g) }
    /\ NoRepeats(Flatten(s))

OnceOnly ==
    /\ once.completed.feature_graph <= 1
    /\ once.completed.sccs <= 1
    /\ IsSome(once.feature_graph.value) <=> once.feature_graph.state = "complete"
    /\ IsSome(once.sccs.value) <=> once.sccs.state = "complete"
    /\ IsSome(once.feature_graph.value) => FullyBuilt(Unwrap(once.feature_graph.value))
    /\ IsSome(once.sccs.value) =>
          ComponentsOf(Unwrap(once.feature_graph.value).graph, Unwrap(once.sccs.value))
    /\ \A c \in Callers :
          /\ IsSome(once.callers[c].inner) => once.callers[c].inner = once.feature_graph.value
          /\ IsSome(once.callers[c].sccs) => once.callers[c].sccs = once.sccs.value
          /\ once.callers[c].pc \in {"has_graph", "sccs_init", "sccs_wait", "has_sccs"}
                => IsSome(once.callers[c].inner)
          /\ once.callers[c].pc = "has_sccs" => IsSome(once.callers[c].sccs)

StoredForGood ==
    /\ IsSome(once.feature_graph.value) => once.feature_graph' = once.feature_graph
    /\ IsSome(once.sccs.value) => once.sccs' = once.sccs

(* C21: with several callers of get_feature_graph and of sccs, each         *)
(* initialiser, FeatureGraphImpl::new and Sccs::new, runs to completion at  *)
(* most once; a cell has a value only when its initialiser has completed,   *)
(* and the value of the feature graph cell is the fully built graph; every  *)
(* caller that has returned holds the value of the cell; and a cell that    *)
(* has a value keeps it in every step.                                      *)
C21_InitialisedOnce == []OnceOnly /\ [][StoredForGood]_vars

(* both callers have the feature graph and its Sccs; the graph has an edge  *)
(* from a package 0 node to a package 1 node                                *)
C21_Witness ==
    /\ \A c \in Callers : once.callers[c].pc = "has_sccs"
    /\ once.completed = [feature_graph |-> 1, sccs |-> 1]
    /\ IsSome(once.callers[1].inner)
    /\ once.callers[1].inner = once.callers[2].inner
    /\ once.callers[1].sccs = once.callers[2].sccs
    /\ Len(Unwrap(once.feature_graph.value).graph.edges) > 1

(* a caller waits while another runs FeatureGraphImpl::new, part of the     *)
(* graph being built                                                        *)
C21_WitnessWaiting ==
    /\ once.callers[1].pc = "graph_init"
    /\ once.callers[2].pc = "graph_wait"
    /\ pc = "deps"
    /\ Len(graph.nodes) > 2
    /\ once.feature_graph = [state |-> "running", value |-> None]

(* the caller that ran FeatureGraphImpl::new has panicked, the other has    *)
(* run it again and panicked as well                                        *)
C21_WitnessPanicked ==
    /\ \A c \in Callers : once.callers[c].pc = "panicked"
    /\ once.completed.feature_graph = 0
    /\ once.feature_graph = EmptyCell

====
